---- MODULE Spec2Model ----
(***************************************************************************)
(* A model of the read-only SQLite file reader: the varint codec and the   *)
(* record decoder of page.rs, the header assertions of database_header.rs, *)
(* the catalog of schema_table.rs, the nom parsers of sql_parser.rs and    *)
(* the B-tree traversals and the command dispatch of main.rs.              *)
(*                                                                         *)
(* Text is a sequence of character codes, a u64 that can exceed the range  *)
(* of the model checker's integers is a vector of 64 bits, and a Result is *)
(* a record whose field ok tells Ok from Err; a panic is the outcome       *)
(* "panic".                                                                *)
(***************************************************************************)
EXTENDS Integers, Sequences, FiniteSets, TLC

VARIABLES
    file,             \* the database file on disk: its header and its pages
    overflow_checks,  \* the build: TRUE when integer overflow panics (debug)
    vin,      \* SpecVarint: the bytes the reader holds
    vpc,      \* SpecVarint: "start" before the call, "done" after it
    vout,     \* SpecVarint: what parse_varint_with_bytes returned
    troot,    \* SpecTable: the root page the traversal starts at
    tpc,      \* SpecTable: "start" before the call, "done" after it
    tout,     \* SpecTable: what get_table_records returned
    iroot,    \* SpecIndex: the root page of the index probed
    ival,     \* SpecIndex: the search key
    ipc,      \* SpecIndex: "start" before the call, "done" after it
    iout,     \* SpecIndex: what get_index_records returned
    srecords, \* SpecSchema: the records read from page 1
    spc,      \* SpecSchema: "start" before the call, "done" after it
    sout,     \* SpecSchema: what SchemaTable::try_from returned
    cli,          \* Spec: the command line, the fields of Cli but the file name
    mpc,          \* Spec: "start" before main runs, "done" after it
    stdout,       \* Spec: the lines main printed
    outcome,      \* Spec: how main ended
    catalog,      \* Spec: the SchemaTable main built, None when it built none
    rcell,    \* SpecRecord: the bytes of a leaf table cell
    rpc,      \* SpecRecord: "start" before the call, "done" after it
    rout      \* SpecRecord: what BTreeTableLeafCell::read returned

envVars == <<file, overflow_checks>>

varintVars == <<vin, vpc, vout>>

tableVars == <<troot, tpc, tout>>

indexVars == <<iroot, ival, ipc, iout>>

schemaVars == <<srecords, spc, sout>>

mainVars == <<cli, mpc, stdout, outcome, catalog>>

recordVars == <<rcell, rpc, rout>>

vars == <<file, overflow_checks, vin, vpc, vout, troot, tpc, tout, iroot, ival, ipc, iout,
          srecords, spc, sout, cli, mpc, stdout, outcome, catalog, rcell, rpc, rout>>

(***************************************************************************)
(* Sequences and sums.                                                     *)
(***************************************************************************)
RECURSIVE SeqsOfLen(_, _)
SeqsOfLen(S, n) ==
    IF n = 0 THEN {<<>>}
    ELSE {Append(s, x) : s \in SeqsOfLen(S, n - 1), x \in S}

RECURSIVE InjectiveSeqs(_, _)
\* the sequences of n distinct elements of S
InjectiveSeqs(S, n) ==
    IF n = 0 THEN {<<>>}
    ELSE UNION {{Append(q, x) : x \in S \ {q[i] : i \in 1 .. Len(q)}}
                : q \in InjectiveSeqs(S, n - 1)}

Range(q) == {q[i] : i \in DOMAIN q}

RECURSIVE Flatten(_)
Flatten(seqs) == IF seqs = <<>> THEN <<>> ELSE Head(seqs) \o Flatten(Tail(seqs))

RECURSIVE SumOver(_, _)
\* the sum of g[x] over the set S
SumOver(S, g) ==
    IF S = {} THEN 0
    ELSE LET x == CHOOSE y \in S : TRUE IN g[x] + SumOver(S \ {x}, g)

(***************************************************************************)
(* u64 as a bit vector: bit 0 is the least significant.                    *)
(***************************************************************************)
U64_BITS == 64

BitIdx == 0 .. (U64_BITS - 1)

Zero64 == [i \in BitIdx |-> 0]

\* bit i of the natural number n
BitOf(n, i) == (n \div (2 ^ i)) % 2

\* `x as u64` for a value below 2^16
ToU64(n) == [i \in BitIdx |-> IF i < 16 THEN BitOf(n, i) ELSE 0]

\* `a << k` on u64: the bits shifted beyond bit 63 are lost
Shl64(a, k) == [i \in BitIdx |-> IF i >= k THEN a[i - k] ELSE 0]

\* `a | b` on u64
Or64(a, b) == [i \in BitIdx |-> IF a[i] = 1 \/ b[i] = 1 THEN 1 ELSE 0]

(***************************************************************************)
(* page.rs: parse_varint and parse_varint_with_bytes.                      *)
(***************************************************************************)
MAX_VARINT_BYTES == 9

SHIFT_STEP == 7

\* result <<= 7 * shift; result |= (byte & 0x7F) as u64
VarintStep(result, shift, byte) ==
    Or64(Shl64(result, SHIFT_STEP * shift), ToU64(byte % 128))

RECURSIVE VarintLoop(_, _, _, _)
\* for shift in 0..9u64 { read a byte; result <<= 7 * shift; result |= byte & 0x7F;
\*                        if byte & 0x80 == 0 { break } }
VarintLoop(bytes, shift, result, bytes_read) ==
    IF shift >= MAX_VARINT_BYTES
    THEN [ok |-> TRUE, value |-> result, bytes_read |-> bytes_read]
    ELSE IF bytes_read + 1 > Len(bytes)
    THEN [ok |-> FALSE, value |-> Zero64, bytes_read |-> bytes_read]
    ELSE LET byte == bytes[bytes_read + 1]
             next == VarintStep(result, shift, byte)
         IN  IF byte % 256 < 128
             THEN [ok |-> TRUE, value |-> next, bytes_read |-> bytes_read + 1]
             ELSE VarintLoop(bytes, shift + 1, next, bytes_read + 1)

parse_varint_with_bytes(bytes) == VarintLoop(bytes, 0, Zero64, 0)

parse_varint(bytes) ==
    LET r == parse_varint_with_bytes(bytes)
    IN  [ok |-> r.ok, value |-> r.value]

(***************************************************************************)
(* Results. kind is "Ok", "Err" (an Err(..) the ? operator or bail! hands  *)
(* to the caller), "Panic" (a panic unwinding main) or "StackOverflow".    *)
(***************************************************************************)
Ok(records) == [kind |-> "Ok", records |-> records]

Fail(kind) == [kind |-> kind, records |-> <<>>]

(***************************************************************************)
(* The file. file.page_bytes is the size of a page on disk, file.header    *)
(* the 100-byte header at offset 0 and file.pages[n] page n, which starts  *)
(* at offset (n-1) * page_bytes; the B-tree page header of page 1 follows  *)
(* the file header. A page is [page_type, cells, right_most_pointer], its  *)
(* cells in cell-pointer order; cell i lies CellSlot * i bytes before the  *)
(* end of its page. A handle is the file with the cursor of std::fs::File. *)
(***************************************************************************)
HEADER_BYTES == 100

CellSlot == 16

PageTypes == {"InteriorIndex", "InteriorTable", "LeafIndex", "LeafTable"}

Open(f) == [db |-> f, pos |-> 0]

\* file.seek(SeekFrom::Start(pos))
Seek(handle, pos) == [handle EXCEPT !.pos = pos]

\* the page whose B-tree page header starts at pos, 0 when none does
PageStartingAt(f, pos) ==
    IF pos = HEADER_BYTES /\ Len(f.pages) >= 1 THEN 1
    ELSE IF /\ pos > 0
            /\ pos % f.page_bytes = 0
            /\ pos \div f.page_bytes < Len(f.pages)
    THEN (pos \div f.page_bytes) + 1
    ELSE 0

\* PageHeader::read(file): fails at the end of the file and on a byte that is no
\* page type (at offset 0 the byte read is the 'S' of the magic string)
PageHeader_read(handle) ==
    LET n == PageStartingAt(handle.db, handle.pos)
    IN  IF n = 0 \/ handle.db.pages[n].page_type \notin PageTypes
        THEN [ok |-> FALSE, page |-> 0, page_type |-> "none", number_of_cells |-> 0,
              right_most_pointer |-> 0]
        ELSE [ok |-> TRUE, page |-> n,
              page_type |-> handle.db.pages[n].page_type,
              number_of_cells |-> Len(handle.db.pages[n].cells),
              right_most_pointer |-> handle.db.pages[n].right_most_pointer]

\* PageCellPointerArray::read_args: the offsets of the page's cells, relative to
\* the start of the page
PageCellPointerArray_read(handle, page, nb_cells) ==
    [i \in 1 .. nb_cells |-> handle.db.page_bytes - CellSlot * i]

\* the cell that starts at the handle's position
Cell_read(handle) ==
    LET f == handle.db
        n == (handle.pos \div f.page_bytes) + 1
        back == f.page_bytes - (handle.pos % f.page_bytes)
        i == back \div CellSlot
    IN  IF /\ n <= Len(f.pages)
           /\ back % CellSlot = 0
           /\ i \in 1 .. Len(f.pages[n].cells)
        THEN [ok |-> TRUE, cell |-> f.pages[n].cells[i]]
        ELSE [ok |-> FALSE, cell |-> <<>>]

\* a position past the end of the file, for a product that exceeds the model
\* checker's integers: page_size * (2^32 - 1)
PastEnd(f) == f.page_bytes * (Len(f.pages) + 1)

\* page_size as u64 * (pointer - 1) as u64, pointer a u32: pointer - 1 panics in a
\* build with overflow checks and wraps to 2^32 - 1 in one without
page_position(handle, page_size, pointer) ==
    IF pointer = 0
    THEN IF overflow_checks THEN [kind |-> "Panic", pos |-> 0]
         ELSE [kind |-> "Ok", pos |-> PastEnd(handle.db)]
    ELSE [kind |-> "Ok", pos |-> page_size * (pointer - 1)]

(***************************************************************************)
(* main.rs: get_table_records. depth counts the frames of the recursion;   *)
(* a recursion deeper than STACK_FRAMES overflows the stack.               *)
(***************************************************************************)
STACK_FRAMES == 8

RECURSIVE get_table_records(_, _, _, _)
RECURSIVE TableInteriorCells(_, _, _, _, _, _, _)

\* for offset in page_cell_pointer_array.offsets { .. } of the InteriorTable arm
TableInteriorCells(handle, initial_pos, page_size, depth, offsets, i, records) ==
    IF i > Len(offsets) THEN Ok(records)
    ELSE
        LET read == Cell_read(Seek(handle, initial_pos + offsets[i]))
        IN  IF ~read.ok THEN Fail("Err")
            ELSE
                LET at == page_position(handle, page_size, read.cell.left_child_pointer)
                IN  IF at.kind # "Ok" THEN Fail(at.kind)
                    ELSE
                        LET child_records ==
                                get_table_records(Seek(handle, at.pos), at.pos,
                                                  page_size, depth + 1)
                        IN  IF child_records.kind # "Ok" THEN child_records
                            ELSE TableInteriorCells(handle, initial_pos, page_size,
                                                    depth, offsets, i + 1,
                                                    records \o child_records.records)

\* the LeafTable arm: the record of each cell, in the order of the pointer array
TableLeafCells(handle, initial_pos, offsets) ==
    LET reads == [i \in 1 .. Len(offsets) |->
                    Cell_read(Seek(handle, initial_pos + offsets[i]))]
    IN  IF \E i \in 1 .. Len(offsets) : ~reads[i].ok THEN Fail("Err")
        ELSE Ok([i \in 1 .. Len(offsets) |-> reads[i].cell.record])

\* the part of the InteriorTable arm after the loop: the right-most child
TableRightMostSkipped(handle, page_size, depth, page_header, left) ==
    left

TableRightMost(handle, page_size, depth, page_header, left) ==
    LET at == page_position(handle, page_size, page_header.right_most_pointer)
    IN  IF at.kind # "Ok" THEN Fail(at.kind)
        ELSE
            LET child_records ==
                    get_table_records(Seek(handle, at.pos), at.pos, page_size, depth + 1)
            IN  IF child_records.kind # "Ok" THEN child_records
                ELSE Ok(left.records \o child_records.records)

get_table_records(handle, initial_pos, page_size, depth) ==
    IF depth > STACK_FRAMES THEN Fail("StackOverflow")
    ELSE
        LET page_header == PageHeader_read(handle)
        IN  IF ~page_header.ok THEN Fail("Err")
            ELSE
                LET offsets == PageCellPointerArray_read(handle, page_header.page,
                                                         page_header.number_of_cells)
                IN  CASE page_header.page_type = "InteriorTable" ->
                            LET left == TableInteriorCells(handle, initial_pos, page_size,
                                                           depth, offsets, 1, <<>>)
                            IN  IF left.kind # "Ok" THEN left
                                ELSE TableRightMost(handle, page_size, depth,
                                                    page_header, left)
                      [] page_header.page_type = "LeafTable" ->
                            TableLeafCells(handle, initial_pos, offsets)
                      [] OTHER -> Fail("Err")

(***************************************************************************)
(* page.rs: ColumnContent::repr. Text is a sequence of character codes and *)
(* the order of String is the lexicographic order of the codes.            *)
(***************************************************************************)
ColumnNull == [tag |-> "Null", val |-> 0]

ColumnInt(n) == [tag |-> "Int", val |-> n]

ColumnBlob(bytes) == [tag |-> "Blob", val |-> bytes]

ColumnString(text) == [tag |-> "String", val |-> text]

RECURSIVE Decimal(_)
\* format!("{}", x) of an unsigned integer
Decimal(n) == IF n < 10 THEN <<48 + n>> ELSE Append(Decimal(n \div 10), 48 + (n % 10))

\* "Blob"
BLOB_TEXT == <<66, 108, 111, 98>>

repr(content) ==
    CASE content.tag = "Null" -> <<>>
      [] content.tag = "Int" -> Decimal(content.val)
      [] content.tag = "Blob" -> BLOB_TEXT
      [] content.tag = "String" -> content.val

\* a == b on ColumnContent
ColumnEq(a, b) == a.tag = b.tag /\ a.val = b.val

RECURSIVE TextLess(_, _)
\* a < b on String
TextLess(a, b) ==
    IF b = <<>> THEN FALSE
    ELSE IF a = <<>> THEN TRUE
    ELSE IF Head(a) # Head(b) THEN Head(a) < Head(b)
    ELSE TextLess(Tail(a), Tail(b))

(***************************************************************************)
(* main.rs: get_index_records. l, r, mid and pos are the usize indices of  *)
(* the code, from 0.                                                       *)
(***************************************************************************)
RECURSIVE IndexBinarySearch(_, _, _, _, _, _)
\* while l < r { .. }: the range l..=r the loop ends with. mid - 1 with mid = 0
\* panics in a build with overflow checks; in one without, r wraps to usize::MAX
\* and the next offsets[mid] panics
IndexBinarySearch(handle, initial_pos, offsets, val, l, r) ==
    IF ~(l < r) THEN [kind |-> "Ok", l |-> l, r |-> r]
    ELSE
        LET mid == l + ((r - l) \div 2)
            read == Cell_read(Seek(handle, initial_pos + offsets[mid + 1]))
        IN  IF ~read.ok THEN [kind |-> "Err", l |-> l, r |-> r]
            ELSE IF read.cell.record.column_contents = <<>>
            THEN [kind |-> "Panic", l |-> l, r |-> r]
            ELSE
                LET mid_val == repr(read.cell.record.column_contents[1])
                IN  IF TextLess(val, mid_val)
                    THEN IF mid = 0 THEN [kind |-> "Panic", l |-> l, r |-> r]
                         ELSE IndexBinarySearch(handle, initial_pos, offsets, val,
                                                l, mid - 1)
                    ELSE IF TextLess(mid_val, val)
                    THEN IndexBinarySearch(handle, initial_pos, offsets, val, mid + 1, r)
                    ELSE [kind |-> "Ok", l |-> l, r |-> r]

\* for child_record in child_records { if child_record.column_contents[0] ==
\* ColumnContent::String(val.clone()) { records.push(child_record) } }
RECURSIVE KeepEqual(_, _)
KeepEqual(child_records, val) ==
    IF child_records = <<>> THEN Ok(<<>>)
    ELSE IF Head(child_records).column_contents = <<>> THEN Fail("Panic")
    ELSE LET rest == KeepEqual(Tail(child_records), val)
         IN  IF rest.kind # "Ok" THEN rest
             ELSE IF ColumnEq(Head(child_records).column_contents[1], ColumnString(val))
             THEN Ok(<<Head(child_records)>> \o rest.records)
             ELSE rest

RECURSIVE get_index_records(_, _, _, _, _)
RECURSIVE IndexInteriorCells(_, _, _, _, _, _, _, _, _)

\* for pos in l..=r { .. } of the InteriorIndex arm
IndexInteriorCells(handle, initial_pos, page_size, val, depth, offsets, pos, r, records) ==
    IF pos > r THEN Ok(records)
    ELSE IF pos >= Len(offsets) THEN Fail("Panic")
    ELSE
        LET read == Cell_read(Seek(handle, initial_pos + offsets[pos + 1]))
        IN  IF ~read.ok THEN Fail("Err")
            ELSE IF read.cell.record.column_contents = <<>> THEN Fail("Panic")
            ELSE
                LET pos_val == repr(read.cell.record.column_contents[1])
                    own == IF pos_val = val THEN <<read.cell.record>> ELSE <<>>
                    at == page_position(handle, page_size, read.cell.left_child_pointer)
                IN  IF at.kind # "Ok" THEN Fail(at.kind)
                    ELSE
                        LET child_records ==
                                get_index_records(Seek(handle, at.pos), at.pos,
                                                  page_size, val, depth + 1)
                        IN  IF child_records.kind # "Ok" THEN child_records
                            ELSE
                                LET kept == KeepEqual(child_records.records, val)
                                IN  IF kept.kind # "Ok" THEN kept
                                    ELSE IndexInteriorCells(
                                            handle, initial_pos, page_size, val, depth,
                                            offsets, pos + 1, r,
                                            records \o own \o kept.records)

\* the LeafIndex arm: the record of every cell of the page
IndexLeafCells(handle, initial_pos, offsets) ==
    LET reads == [i \in 1 .. Len(offsets) |->
                    Cell_read(Seek(handle, initial_pos + offsets[i]))]
    IN  IF \E i \in 1 .. Len(offsets) : ~reads[i].ok THEN Fail("Err")
        ELSE Ok([i \in 1 .. Len(offsets) |-> reads[i].cell.record])

\* the InteriorIndex arm. offsets.len() - 1 of an empty array panics in a build
\* with overflow checks; in one without, r wraps to usize::MAX and offsets[mid]
\* panics in the first round of the loop
IndexInterior(handle, initial_pos, page_size, val, depth, offsets) ==
    IF Len(offsets) = 0 THEN Fail("Panic")
    ELSE
        LET range == IndexBinarySearch(handle, initial_pos, offsets, val,
                                       0, Len(offsets) - 1)
        IN  IF range.kind # "Ok" THEN Fail(range.kind)
            ELSE IndexInteriorCells(handle, initial_pos, page_size, val, depth,
                                    offsets, range.l, range.r, <<>>)

get_index_records(handle, initial_pos, page_size, val, depth) ==
    IF depth > STACK_FRAMES THEN Fail("StackOverflow")
    ELSE
        LET page_header == PageHeader_read(handle)
        IN  IF ~page_header.ok THEN Fail("Err")
            ELSE
                LET offsets == PageCellPointerArray_read(handle, page_header.page,
                                                         page_header.number_of_cells)
                IN  CASE page_header.page_type = "InteriorIndex" ->
                            IndexInterior(handle, initial_pos, page_size, val, depth,
                                          offsets)
                      [] page_header.page_type = "LeafIndex" ->
                            IndexLeafCells(handle, initial_pos, offsets)
                      [] OTHER -> Fail("Err")

\* main.rs:266-274: the probe of the index rooted at rootpage, a u64. rootpage - 1
\* with rootpage = 0 panics in a build with overflow checks; in one without, the
\* product wraps to an offset no seek accepts
IndexRecordsOfRoot(f, page_size, rootpage, val) ==
    IF rootpage = 0
    THEN IF overflow_checks THEN Fail("Panic") ELSE Fail("Err")
    ELSE LET at == page_size * (rootpage - 1)
         IN  get_index_records(Seek(Open(f), at), at, page_size, val, 1)

\* the two ways main starts the traversal: page 1 after the file header has been
\* read (main.rs:231), any other root after a seek to its page (main.rs:280-282)
TableRecordsOfRoot(f, page_size, rootpage) ==
    IF rootpage = 1
    THEN get_table_records(Seek(Open(f), HEADER_BYTES), 0, page_size, 1)
    ELSE LET at == page_size * (rootpage - 1)
         IN  get_table_records(Seek(Open(f), at), at, page_size, 1)

(***************************************************************************)
(* Text for the parsers of sql_parser.rs. The text is ASCII; a parser      *)
(* returns whether it matched, the rest of the input and what it produced. *)
(***************************************************************************)
\* char::is_alphanumeric on ASCII: the digits and the letters
Alphanumeric == (48 .. 57) \cup (65 .. 90) \cup (97 .. 122)

\* |c| c == '_' || c.is_alphanumeric()
IdentifierChars == Alphanumeric \cup {95}

\* |c| c == '(' || c == ')' || c == '*' || c == '\'' || c == '_' || c.is_alphanumeric()
IdentifierOrStarChars == IdentifierChars \cup {40, 41, 42, 39}

\* the characters of multispace0 and multispace1: space, tab, CR and LF
Multispace == {32, 9, 13, 10}

\* the characters of space0: space and tab
SpaceOrTab == {32, 9}

\* str::to_lowercase on ASCII
to_lowercase(s) == [i \in 1 .. Len(s) |-> IF s[i] \in 65 .. 90 THEN s[i] + 32 ELSE s[i]]

Drop(s, n) == SubSeq(s, n + 1, Len(s))

\* the length of the longest prefix of s made of characters of S
PrefixLen(s, S) ==
    CHOOSE n \in 0 .. Len(s) :
        /\ \A i \in 1 .. n : s[i] \in S
        /\ n = Len(s) \/ s[n + 1] \notin S

NomOk(rest, out) == [ok |-> TRUE, rest |-> rest, out |-> out]

NomErr == [ok |-> FALSE, rest |-> <<>>, out |-> <<>>]

(***************************************************************************)
(* The parsers of nom the source combines. A parser is a value; Parse runs *)
(* it on an input.                                                         *)
(***************************************************************************)
tag(t) == [kind |-> "tag", t |-> t]

tag_no_case(t) == [kind |-> "tag_no_case", t |-> t]

char(c) == [kind |-> "char", c |-> c]

\* the longest prefix of characters of S, an error when it is shorter than min
TakeWhile(S, min) == [kind |-> "take_while", S |-> S, min |-> min]

multispace0 == TakeWhile(Multispace, 0)

multispace1 == TakeWhile(Multispace, 1)

space0 == TakeWhile(SpaceOrTab, 0)

take_while1(S) == TakeWhile(S, 1)

\* take_until of a one-character tag
take_until(c) == [kind |-> "take_until", c |-> c]

alt(parsers) == [kind |-> "alt", parsers |-> parsers]

delimited(first, second, third) ==
    [kind |-> "delimited", parsers |-> <<first, second, third>>]

preceded(first, second) == [kind |-> "preceded", parsers |-> <<first, second>>]

separated_pair(first, sep, second) ==
    [kind |-> "separated_pair", parsers |-> <<first, sep, second>>]

separated_list0(sep, f) == [kind |-> "separated_list", sep |-> sep, f |-> f, min |-> 0]

separated_list1(sep, f) == [kind |-> "separated_list", sep |-> sep, f |-> f, min |-> 1]

\* the statements `let (input, x) = p(input)?;` for each p of parsers in turn:
\* the outputs in order, or the first error
Steps(parsers) == [kind |-> "steps", parsers |-> parsers]

RECURSIVE Parse(_, _)
RECURSIVE ParseSteps(_, _, _)
RECURSIVE ParseAlt(_, _)
RECURSIVE SeparatedLoop(_, _, _, _)

ParseSteps(parsers, input, outs) ==
    IF parsers = <<>> THEN NomOk(input, outs)
    ELSE LET r == Parse(Head(parsers), input)
         IN  IF ~r.ok THEN NomErr
             ELSE ParseSteps(Tail(parsers), r.rest, Append(outs, r.out))

\* the first parser that succeeds
ParseAlt(parsers, input) ==
    IF parsers = <<>> THEN NomErr
    ELSE LET r == Parse(Head(parsers), input)
         IN  IF r.ok THEN r ELSE ParseAlt(Tail(parsers), input)

\* the loop of separated_list0 and separated_list1: a separator, then an element;
\* the list ends, the separator unconsumed, where either fails. (The error nom
\* gives a separator that consumes nothing does not arise: every separator of
\* the source consumes a character.)
SeparatedLoop(sep, f, input, res) ==
    LET s == Parse(sep, input)
    IN  IF ~s.ok THEN NomOk(input, res)
        ELSE LET e == Parse(f, s.rest)
             IN  IF ~e.ok THEN NomOk(input, res)
                 ELSE SeparatedLoop(sep, f, e.rest, Append(res, e.out))

Parse(p, input) ==
    CASE p.kind = "tag" ->
            IF Len(input) >= Len(p.t) /\ SubSeq(input, 1, Len(p.t)) = p.t
            THEN NomOk(Drop(input, Len(p.t)), p.t)
            ELSE NomErr
      [] p.kind = "tag_no_case" ->
            IF /\ Len(input) >= Len(p.t)
               /\ to_lowercase(SubSeq(input, 1, Len(p.t))) = to_lowercase(p.t)
            THEN NomOk(Drop(input, Len(p.t)), SubSeq(input, 1, Len(p.t)))
            ELSE NomErr
      [] p.kind = "char" ->
            IF input # <<>> /\ Head(input) = p.c THEN NomOk(Tail(input), p.c) ELSE NomErr
      [] p.kind = "take_while" ->
            LET n == PrefixLen(input, p.S)
            IN  IF n < p.min THEN NomErr ELSE NomOk(Drop(input, n), SubSeq(input, 1, n))
      [] p.kind = "take_until" ->
            IF \E i \in 1 .. Len(input) : input[i] = p.c
            THEN LET n == CHOOSE i \in 1 .. Len(input) :
                            input[i] = p.c /\ \A j \in 1 .. (i - 1) : input[j] # p.c
                 IN  NomOk(Drop(input, n - 1), SubSeq(input, 1, n - 1))
            ELSE NomErr
      [] p.kind = "alt" -> ParseAlt(p.parsers, input)
      [] p.kind = "steps" -> ParseSteps(p.parsers, input, <<>>)
      [] p.kind = "delimited" ->
            LET r == ParseSteps(p.parsers, input, <<>>)
            IN  IF r.ok THEN NomOk(r.rest, r.out[2]) ELSE NomErr
      [] p.kind = "preceded" ->
            LET r == ParseSteps(p.parsers, input, <<>>)
            IN  IF r.ok THEN NomOk(r.rest, r.out[2]) ELSE NomErr
      [] p.kind = "separated_pair" ->
            LET r == ParseSteps(p.parsers, input, <<>>)
            IN  IF r.ok THEN NomOk(r.rest, <<r.out[1], r.out[3]>>) ELSE NomErr
      [] p.kind = "separated_list" ->
            LET first == Parse(p.f, input)
            IN  IF first.ok THEN SeparatedLoop(p.sep, p.f, first.rest, <<first.out>>)
                ELSE IF p.min = 0 THEN NomOk(input, <<>>)
                ELSE NomErr

(***************************************************************************)
(* sql_parser.rs: the parsers of the source.                               *)
(***************************************************************************)
parse_identifier ==
    delimited(multispace0,
              alt(<<take_while1(IdentifierChars),
                    delimited(char(34), take_until(34), char(34))>>),
              multispace0)

parse_identifier_or_star ==
    delimited(multispace0, take_while1(IdentifierOrStarChars), multispace0)

parse_columns ==
    separated_list0(delimited(multispace0, char(44), multispace0), parse_identifier_or_star)

parse_value == delimited(char(39), take_until(39), char(39))

\* "WHERE"
KW_WHERE == <<87, 72, 69, 82, 69>>

parse_where_clause ==
    preceded(tag_no_case(KW_WHERE),
             delimited(multispace1,
                       separated_pair(parse_identifier,
                                      delimited(multispace0, char(61), multispace0),
                                      parse_value),
                       multispace0))

\* "SELECT"
KW_SELECT == <<83, 69, 76, 69, 67, 84>>

\* "FROM"
KW_FROM == <<70, 82, 79, 77>>

\* Option: None is the empty sequence, Some(x) the sequence of x alone
None == <<>>

Some(x) == <<x>>

\* the where clause is parse_where_clause(input).ok(): a clause that does not
\* parse is None, and the input returned is the one after the table name
parse_select_command(input) ==
    LET r == Parse(Steps(<<tag_no_case(KW_SELECT), parse_columns, space0,
                           tag_no_case(KW_FROM), parse_identifier>>), input)
    IN  IF ~r.ok THEN NomErr
        ELSE LET where_clause == Parse(parse_where_clause, r.rest)
             IN  NomOk(r.rest,
                       [columns |-> r.out[2],
                        tablename |-> r.out[5],
                        where_clause |-> IF where_clause.ok THEN Some(where_clause.out)
                                         ELSE None])

parse_column_def == separated_list1(multispace1, take_while1(IdentifierChars))

parse_column_defs ==
    separated_list0(tag(<<44>>), delimited(multispace0, parse_column_def, multispace0))

\* "CREATE TABLE"
KW_CREATE_TABLE == <<67, 82, 69, 65, 84, 69, 32, 84, 65, 66, 76, 69>>

parse_create_table_command(input) ==
    LET r == Parse(Steps(<<tag_no_case(KW_CREATE_TABLE), parse_identifier, tag_no_case(<<40>>),
                           multispace0, parse_column_defs>>), input)
    IN  IF ~r.ok THEN NomErr
        ELSE NomOk(r.rest, [columns_and_types |-> r.out[5], tablename |-> r.out[2]])

\* "CREATE INDEX"
KW_CREATE_INDEX == <<67, 82, 69, 65, 84, 69, 32, 73, 78, 68, 69, 88>>

\* "on"
KW_ON == <<111, 110>>

parse_create_index_command(input) ==
    LET r == Parse(Steps(<<tag_no_case(KW_CREATE_INDEX), parse_identifier, multispace0,
                           tag_no_case(KW_ON), multispace0, parse_identifier,
                           tag_no_case(<<40>>), multispace0, parse_identifier>>), input)
    IN  IF ~r.ok THEN NomErr
        ELSE NomOk(r.rest, [indexname |-> r.out[2], tablename |-> r.out[6],
                            colname |-> r.out[9]])

(***************************************************************************)
(* schema_table.rs: SchemaTableRecord and SchemaTable.                     *)
(***************************************************************************)
\* impl TryFrom<Record> for SchemaTableRecord
SchemaTableRecord_try_from_any_rootpage(record) ==
    LET c == record.column_contents
    IN  IF Len(c) # 5 THEN [ok |-> FALSE]
        ELSE IF c[1].tag # "String" THEN [ok |-> FALSE]
        ELSE IF c[2].tag # "String" THEN [ok |-> FALSE]
        ELSE IF c[3].tag # "String" THEN [ok |-> FALSE]
        ELSE IF c[5].tag \notin {"String", "Blob"} THEN [ok |-> FALSE]
        ELSE [ok |-> TRUE,
              value |-> [coltype |-> c[1].val, name |-> c[2].val, tbl_name |-> c[3].val,
                         rootpage |-> c[4].val,
                         sql |-> IF c[5].tag = "String" THEN c[5].val ELSE BLOB_TEXT]]

SchemaTableRecord_try_from(record) ==
    LET c == record.column_contents
    IN  IF Len(c) # 5 THEN [ok |-> FALSE]
        ELSE IF c[1].tag # "String" THEN [ok |-> FALSE]
        ELSE IF c[2].tag # "String" THEN [ok |-> FALSE]
        ELSE IF c[3].tag # "String" THEN [ok |-> FALSE]
        ELSE IF c[4].tag # "Int" THEN [ok |-> FALSE]
        ELSE IF c[5].tag \notin {"String", "Blob"} THEN [ok |-> FALSE]
        ELSE [ok |-> TRUE,
              value |-> [coltype |-> c[1].val, name |-> c[2].val, tbl_name |-> c[3].val,
                         rootpage |-> c[4].val,
                         sql |-> IF c[5].tag = "String" THEN c[5].val ELSE BLOB_TEXT]]

RECURSIVE FilterMapSchema(_)
\* records.into_iter().filter_map(|r| SchemaTableRecord::try_from(r).ok()).collect()
FilterMapSchema(records) ==
    IF records = <<>> THEN <<>>
    ELSE LET r == SchemaTableRecord_try_from(Head(records))
         IN  (IF r.ok THEN <<r.value>> ELSE <<>>) \o FilterMapSchema(Tail(records))

\* impl TryFrom<Vec<Record>> for SchemaTable
SchemaTable_try_from(records) ==
    [ok |-> TRUE, value |-> [records |-> FilterMapSchema(records)]]

\* "table"
TEXT_TABLE == <<116, 97, 98, 108, 101>>

\* "index"
TEXT_INDEX == <<105, 110, 100, 101, 120>>

\* "sqlite_"
SQLITE_PREFIX == <<115, 113, 108, 105, 116, 101, 95>>

\* s.starts_with(prefix)
starts_with(s, prefix) == Len(s) >= Len(prefix) /\ SubSeq(s, 1, Len(prefix)) = prefix

RECURSIVE Filter(_, _)
\* the elements of q that are in S, in the order of q
Filter(q, S) ==
    IF q = <<>> THEN <<>>
    ELSE (IF Head(q) \in S THEN <<Head(q)>> ELSE <<>>) \o Filter(Tail(q), S)

get_nb_tables(schema_table) ==
    Len(Filter(schema_table.records,
               {s \in Range(schema_table.records) : s.coltype = TEXT_TABLE}))

\* get_table_names without the filter on the prefix "sqlite_"
get_table_names_unfiltered(schema_table) ==
    LET kept == Filter(schema_table.records,
                       {s \in Range(schema_table.records) : s.coltype = TEXT_TABLE})
    IN  [i \in 1 .. Len(kept) |-> kept[i].name]

get_table_names(schema_table) ==
    LET kept == Filter(schema_table.records,
                       {s \in Range(schema_table.records) :
                            s.coltype = TEXT_TABLE /\ ~starts_with(s.name, SQLITE_PREFIX)})
    IN  [i \in 1 .. Len(kept) |-> kept[i].name]

\* find_map: the first record of type "table" whose name is `name`, the case of
\* the letters apart
get_schema_record_for_table(schema_table, name) ==
    LET found == Filter(schema_table.records,
                        {s \in Range(schema_table.records) :
                            /\ s.coltype = TEXT_TABLE
                            /\ to_lowercase(s.name) = to_lowercase(name)})
    IN  IF found = <<>> THEN None ELSE Some(found[1])

\* the first record of type "index" whose CREATE INDEX statement parses and names
\* the table and the column, the case of the letters apart, with what the
\* statement parsed to
get_schema_index_for_table(schema_table, tablename, colname) ==
    LET found == Filter(schema_table.records,
                        {s \in Range(schema_table.records) :
                            /\ s.coltype = TEXT_INDEX
                            /\ LET q == parse_create_index_command(s.sql)
                               IN  /\ q.ok
                                   /\ to_lowercase(q.out.tablename) = to_lowercase(tablename)
                                   /\ to_lowercase(q.out.colname) = to_lowercase(colname)})
    IN  IF found = <<>> THEN None
        ELSE Some(<<found[1], parse_create_index_command(found[1].sql).out>>)

(***************************************************************************)
(* database_header.rs: the fields of DatabaseHeader that carry an          *)
(* assertion, and page_size.                                               *)
(***************************************************************************)
\* "SQLite format 3\0"
MAGIC == <<83, 81, 76, 105, 116, 101, 32, 102, 111, 114, 109, 97, 116, 32, 51, 0>>

RESERVED_BYTES == 20

ValidHeader(page_size) ==
    [magic_string |-> MAGIC,
     page_size |-> page_size,
     max_embedded_payload_fraction |-> 64,
     min_embedded_payload_fraction |-> 32,
     leaf_payload_fraction |-> 32,
     schema_format_number |-> 4,
     reserved |-> [i \in 1 .. RESERVED_BYTES |-> 0]]

\* String::from_utf8_lossy of bytes that hold no valid multi-byte sequence: a
\* byte of the upper half becomes U+FFFD
from_utf8_lossy(bytes) ==
    [i \in 1 .. Len(bytes) |-> IF bytes[i] < 128 THEN bytes[i] ELSE 65533]

vector_all_zeros(vector) == \A i \in 1 .. Len(vector) : vector[i] = 0

\* DatabaseHeader::read without the assertion on the reserved bytes
DatabaseHeader_read_reserved_unchecked(handle) ==
    LET h == handle.db.header
    IN  IF from_utf8_lossy(h.magic_string) # MAGIC THEN [ok |-> FALSE]
        ELSE IF h.max_embedded_payload_fraction # 64 THEN [ok |-> FALSE]
        ELSE IF h.min_embedded_payload_fraction # 32 THEN [ok |-> FALSE]
        ELSE IF h.leaf_payload_fraction # 32 THEN [ok |-> FALSE]
        ELSE IF h.schema_format_number \notin 1 .. 4 THEN [ok |-> FALSE]
        ELSE [ok |-> TRUE, value |-> h, handle |-> Seek(handle, HEADER_BYTES)]

\* DatabaseHeader::read(&mut file): the fields in file order, each assertion an
\* Err; the cursor ends after the 100 bytes of the header
DatabaseHeader_read(handle) ==
    LET h == handle.db.header
    IN  IF from_utf8_lossy(h.magic_string) # MAGIC THEN [ok |-> FALSE]
        ELSE IF h.max_embedded_payload_fraction # 64 THEN [ok |-> FALSE]
        ELSE IF h.min_embedded_payload_fraction # 32 THEN [ok |-> FALSE]
        ELSE IF h.leaf_payload_fraction # 32 THEN [ok |-> FALSE]
        ELSE IF h.schema_format_number \notin 1 .. 4 THEN [ok |-> FALSE]
        ELSE IF ~vector_all_zeros(h.reserved) THEN [ok |-> FALSE]
        ELSE [ok |-> TRUE, value |-> h, handle |-> Seek(handle, HEADER_BYTES)]

(***************************************************************************)
(* page.rs: the record of a cell, read from bytes. A reader is the bytes   *)
(* and the position of the cursor in them; a read past the last byte is an *)
(* Err. The integers read are u64, vectors of bits. The serial types and   *)
(* the lengths of the cells read are below 2^31 and are also numbers.      *)
(***************************************************************************)
RECURSIVE NatOfBits(_, _)
\* the number a u64 below 2^31 holds, from bit i up
NatOfBits(v, i) == IF i > 30 THEN 0 ELSE v[i] * (2 ^ i) + NatOfBits(v, i + 1)

U64ToNat(v) == NatOfBits(v, 0)

ColumnFloat(bytes) == [tag |-> "Float", val |-> bytes]

ColumnType(name, size) == [tag |-> name, size |-> size]

FIXED_COLUMN_TYPES ==
    <<"Null", "Int8", "Int16", "Int24", "Int32", "Int48", "Int64", "Float64", "Integer0",
      "Integer1">>

\* impl TryFrom<u64> for ColumnType; the last arm, the Err, matches no u64
ColumnType_try_from(serial_type) ==
    LET n == U64ToNat(serial_type)
    IN  IF n <= 9 THEN ColumnType(FIXED_COLUMN_TYPES[n + 1], 0)
        ELSE IF n = 10 \/ n = 11 THEN ColumnType("Reserved", 0)
        ELSE IF n % 2 = 0 THEN ColumnType("Blob", (n - 12) \div 2)
        ELSE ColumnType("String", (n - 13) \div 2)

RECURSIVE parse_record_header_loop(_, _, _, _, _)
\* while total_bytes_read < size_header { .. }
parse_record_header_loop(bytes, pos, size_header, total_bytes_read, records_type) ==
    IF total_bytes_read >= size_header
    THEN [kind |-> "Ok", pos |-> pos, value |-> records_type]
    ELSE LET varint == parse_varint_with_bytes(Drop(bytes, pos))
         IN  IF ~varint.ok THEN [kind |-> "Err", pos |-> pos, value |-> <<>>]
             ELSE parse_record_header_loop(
                     bytes, pos + varint.bytes_read, size_header,
                     total_bytes_read + varint.bytes_read,
                     Append(records_type, ColumnType_try_from(varint.value)))

\* size_header_varint is (size_header, header_bytes_read)
parse_record_header(bytes, pos, size_header_varint) ==
    parse_record_header_loop(bytes, pos, U64ToNat(size_header_varint[1]),
                             size_header_varint[2], <<>>)

\* uN::from_be_bytes(buf) as u64
from_be_bytes(buf) ==
    [i \in BitIdx |->
        IF i < 8 * Len(buf) THEN BitOf(buf[Len(buf) - (i \div 8)], i % 8) ELSE 0]

\* `a << k` on an unsigned integer of `width` bits, k below width
Shl(a, k, width) == [i \in BitIdx |-> IF i < width /\ i >= k THEN a[i - k] ELSE 0]

RECURSIVE ShlChain(_, _, _)
\* a << k1 << k2 << ..: a shift by the width or more panics in a build with
\* overflow checks, and shifts by the amount modulo the width in one without
ShlChain(a, amounts, width) ==
    IF amounts = <<>> THEN [kind |-> "Ok", value |-> a]
    ELSE IF Head(amounts) >= width /\ overflow_checks
    THEN [kind |-> "Panic", value |-> Zero64]
    ELSE ShlChain(Shl(a, Head(amounts) % width, width), Tail(amounts), width)

\* (buf[0] as u32) << 16 + (buf[1] as u32) << 8 + buf[2] as u32: `+` binds
\* tighter than `<<`, so this is buf[0] << (16 + buf[1]) << (8 + buf[2])
Int24Value(buf) == ShlChain(ToU64(buf[1]), <<16 + buf[2], 8 + buf[3]>>, 32)

\* (buf[0] as u64) << 40 + (buf[1] as u64) << 32 + .. << 8 + (buf[5] as u64)
Int48Value(buf) ==
    ShlChain(ToU64(buf[1]),
             <<40 + buf[2], 32 + buf[3], 24 + buf[4], 16 + buf[5], 8 + buf[6]>>, 64)

\* the bytes a column of the type takes in the body of the record
BodyBytes(column_type) ==
    CASE column_type.tag = "Int8" -> 1
      [] column_type.tag = "Int16" -> 2
      [] column_type.tag = "Int24" -> 3
      [] column_type.tag = "Int32" -> 4
      [] column_type.tag = "Int48" -> 6
      [] column_type.tag \in {"Int64", "Float64"} -> 8
      [] column_type.tag \in {"Blob", "String"} -> column_type.size
      [] OTHER -> 0

\* one arm of the match of parse_record_payload, on the bytes read_exact read
ColumnContentOf(column_type, buf) ==
    CASE column_type.tag = "Null" -> [kind |-> "Ok", value |-> ColumnNull]
      [] column_type.tag \in {"Int8", "Int16", "Int32", "Int64"} ->
            [kind |-> "Ok", value |-> ColumnInt(from_be_bytes(buf))]
      [] column_type.tag = "Int24" ->
            LET val == Int24Value(buf)
            IN  [kind |-> val.kind, value |-> ColumnInt(val.value)]
      [] column_type.tag = "Int48" ->
            LET val == Int48Value(buf)
            IN  [kind |-> val.kind, value |-> ColumnInt(val.value)]
      [] column_type.tag = "Float64" -> [kind |-> "Ok", value |-> ColumnFloat(buf)]
      [] column_type.tag = "Integer0" -> [kind |-> "Ok", value |-> ColumnInt(ToU64(0))]
      [] column_type.tag = "Integer1" -> [kind |-> "Ok", value |-> ColumnInt(ToU64(1))]
      [] column_type.tag = "Reserved" -> [kind |-> "Panic", value |-> ColumnNull]
      [] column_type.tag = "Blob" -> [kind |-> "Ok", value |-> ColumnBlob(buf)]
      [] column_type.tag = "String" ->
            [kind |-> "Ok", value |-> ColumnString(from_utf8_lossy(buf))]

RECURSIVE parse_record_payload_loop(_, _, _, _)
\* for column_type in column_types { .. }: todo!() panics before it reads
parse_record_payload_loop(bytes, pos, column_types, column_contents) ==
    IF column_types = <<>>
    THEN [kind |-> "Ok", pos |-> pos, value |-> column_contents]
    ELSE LET column_type == Head(column_types)
             n == BodyBytes(column_type)
         IN  IF column_type.tag # "Reserved" /\ pos + n > Len(bytes)
             THEN [kind |-> "Err", pos |-> pos, value |-> <<>>]
             ELSE LET column_content ==
                        ColumnContentOf(column_type, SubSeq(bytes, pos + 1, pos + n))
                  IN  IF column_content.kind # "Ok"
                      THEN [kind |-> column_content.kind, pos |-> pos, value |-> <<>>]
                      ELSE parse_record_payload_loop(
                              bytes, pos + n, Tail(column_types),
                              Append(column_contents, column_content.value))

\* nb_bytes_key_payload_including_overflow and header_size are arguments the
\* function never uses for a decision: nb_bytes_parsed is only counted
parse_record_payload(bytes, pos, column_types) ==
    parse_record_payload_loop(bytes, pos, column_types, <<>>)

\* Record::read: the fields in order, each a `?`
Record_read(bytes, pos) ==
    LET size_header_varint == parse_varint_with_bytes(Drop(bytes, pos))
        header_start == pos + size_header_varint.bytes_read
        column_types ==
            parse_record_header(bytes, header_start,
                                <<size_header_varint.value, size_header_varint.bytes_read>>)
        column_contents == parse_record_payload(bytes, column_types.pos, column_types.value)
        none == [size_header_varint |-> <<Zero64, 0>>, column_types |-> <<>>,
                 column_contents |-> <<>>]
    IN  IF ~size_header_varint.ok THEN [kind |-> "Err", pos |-> pos, value |-> none]
        ELSE IF column_types.kind # "Ok"
        THEN [kind |-> column_types.kind, pos |-> column_types.pos, value |-> none]
        ELSE IF column_contents.kind # "Ok"
        THEN [kind |-> column_contents.kind, pos |-> column_contents.pos, value |-> none]
        ELSE [kind |-> "Ok", pos |-> column_contents.pos,
              value |-> [size_header_varint |->
                            <<size_header_varint.value, size_header_varint.bytes_read>>,
                         column_types |-> column_types.value,
                         column_contents |-> column_contents.value]]

\* BTreeTableLeafCell::read: the payload length, the rowid, the record
BTreeTableLeafCell_read(bytes) ==
    LET nb_bytes_key_payload_including_overflow == parse_varint_with_bytes(bytes)
        key_start == nb_bytes_key_payload_including_overflow.bytes_read
        integer_key == parse_varint_with_bytes(Drop(bytes, key_start))
        record == Record_read(bytes, key_start + integer_key.bytes_read)
        none == [nb_bytes_key_payload_including_overflow |-> Zero64,
                 integer_key |-> Zero64, record |-> record.value]
    IN  IF ~nb_bytes_key_payload_including_overflow.ok \/ ~integer_key.ok
        THEN [kind |-> "Err", pos |-> 0, value |-> none]
        ELSE IF record.kind # "Ok"
        THEN [kind |-> record.kind, pos |-> record.pos, value |-> none]
        ELSE [kind |-> "Ok", pos |-> record.pos,
              value |-> [nb_bytes_key_payload_including_overflow |->
                            nb_bytes_key_payload_including_overflow.value,
                         integer_key |-> integer_key.value,
                         record |-> record.value]]

(***************************************************************************)
(* main.rs: main. A run ends with an outcome, Ok(()) or the Err or panic   *)
(* that ended it and the place it came from, the lines printed on stdout   *)
(* and the catalog, None when the run ended before it built one.           *)
(***************************************************************************)
Ended(kind, at, stdout_lines, built) ==
    [outcome |-> [kind |-> kind, at |-> at], stdout |-> stdout_lines,
     schema_table |-> built]

\* "database page size: "
TEXT_PAGE_SIZE == <<100, 97, 116, 97, 98, 97, 115, 101, 32, 112, 97, 103, 101, 32, 115,
                    105, 122, 101, 58, 32>>

\* "number of tables: "
TEXT_NB_TABLES == <<110, 117, 109, 98, 101, 114, 32, 111, 102, 32, 116, 97, 98, 108, 101,
                    115, 58, 32>>

RECURSIVE join(_, _)
\* texts.join(sep)
join(texts, sep) ==
    IF texts = <<>> THEN <<>>
    ELSE IF Len(texts) = 1 THEN texts[1]
    ELSE texts[1] \o sep \o join(Tail(texts), sep)

\* main.rs:223-340: the SQL command. Nothing is printed on stdout: dbg! writes
\* to stderr, and the panic of line 278 ends every run that reaches it, before
\* the table is read
main_sql_command(f, sql_command) ==
    LET parsed == parse_select_command(sql_command)
        select_query == parsed.out
        db_header == DatabaseHeader_read(Open(f))
        records == TableRecordsOfRoot(f, db_header.value.page_size, 1)
        schema_table == SchemaTable_try_from(records.records).value
        table_record == get_schema_record_for_table(schema_table, select_query.tablename)
        created == parse_create_table_command(table_record[1].sql)
        index_record_and_create_index_query ==
            IF select_query.where_clause = None THEN None
            ELSE get_schema_index_for_table(schema_table, select_query.tablename,
                                            select_query.where_clause[1][1])
        probe ==
            IF index_record_and_create_index_query = None THEN Ok(<<>>)
            ELSE IndexRecordsOfRoot(f, db_header.value.page_size,
                                    index_record_and_create_index_query[1][1].rootpage,
                                    select_query.where_clause[1][2])
    IN  IF ~parsed.ok THEN Ended("Err", "parse_select_command", <<>>, None)
        ELSE IF ~db_header.ok THEN Ended("Err", "DatabaseHeader::read", <<>>, None)
        ELSE IF records.kind # "Ok" THEN Ended(records.kind, "get_table_records", <<>>, None)
        ELSE IF table_record = None
        THEN Ended("Panic", "Could not find table", <<>>, Some(schema_table))
        ELSE IF ~created.ok
        THEN Ended("Err", "parse_create_table_command", <<>>, Some(schema_table))
        ELSE IF to_lowercase(created.out.tablename) # to_lowercase(select_query.tablename)
        THEN Ended("Panic", "assert_eq", <<>>, Some(schema_table))
        ELSE IF probe.kind # "Ok"
        THEN Ended(probe.kind, "get_index_records", <<>>, Some(schema_table))
        ELSE Ended("Panic", "AA", <<>>, Some(schema_table))

\* main.rs:347-358: .dbinfo. The page size is printed before the schema table is
\* read
main_dbinfo(f) ==
    LET db_header == DatabaseHeader_read(Open(f))
        page_size_line == TEXT_PAGE_SIZE \o Decimal(db_header.value.page_size)
        records == TableRecordsOfRoot(f, db_header.value.page_size, 1)
        schema_table == SchemaTable_try_from(records.records).value
        nb_tables == get_nb_tables(schema_table)
    IN  IF ~db_header.ok THEN Ended("Err", "DatabaseHeader::read", <<>>, None)
        ELSE IF records.kind # "Ok"
        THEN Ended(records.kind, "get_table_records", <<page_size_line>>, None)
        ELSE Ended("Ok", "main", <<page_size_line, TEXT_NB_TABLES \o Decimal(nb_tables)>>,
                   Some(schema_table))

\* main.rs:359-369: .tables
main_tables(f) ==
    LET db_header == DatabaseHeader_read(Open(f))
        records == TableRecordsOfRoot(f, db_header.value.page_size, 1)
        schema_table == SchemaTable_try_from(records.records).value
        table_names == get_table_names(schema_table)
    IN  IF ~db_header.ok THEN Ended("Err", "DatabaseHeader::read", <<>>, None)
        ELSE IF records.kind # "Ok" THEN Ended(records.kind, "get_table_records", <<>>, None)
        ELSE Ended("Ok", "main", <<join(table_names, <<32>>)>>, Some(schema_table))

(***************************************************************************)
(* The files of the traversals: NPages pages, a page of at most MaxCells   *)
(* cells. An interior page points to distinct pages of a higher number;    *)
(* OddFiles hold the other shapes. A leaf cell is labelled by its page and *)
(* its place in the pointer array.                                         *)
(***************************************************************************)
NPages == 4

MaxCells == 2

PageBytes == 512

RowRecord(n) == [column_contents |-> <<ColumnInt(n)>>]

LeafTableCell(p, i) == [integer_key |-> 10 * p + i, record |-> RowRecord(10 * p + i)]

LeafTablePage(p, k) ==
    [page_type |-> "LeafTable",
     cells |-> [i \in 1 .. k |-> LeafTableCell(p, i)],
     right_most_pointer |-> 0]

\* the last pointer is the right-most pointer of the page header
InteriorTablePage(pointers) ==
    [page_type |-> "InteriorTable",
     cells |-> [i \in 1 .. (Len(pointers) - 1) |->
                    [left_child_pointer |-> pointers[i], integer_key |-> 10 * pointers[i]]],
     right_most_pointer |-> pointers[Len(pointers)]]

EmptyPage(page_type) == [page_type |-> page_type, cells |-> <<>>, right_most_pointer |-> 0]

TablePageChoices(p) ==
    {LeafTablePage(p, k) : k \in 0 .. MaxCells}
    \cup {InteriorTablePage(q) :
            q \in UNION {InjectiveSeqs((p + 1) .. NPages, n) : n \in 1 .. (MaxCells + 1)}}

RECURSIVE TablePagesFrom(_)
TablePagesFrom(p) ==
    IF p > NPages THEN {<<>>}
    ELSE {<<pg>> \o rest : pg \in TablePageChoices(p), rest \in TablePagesFrom(p + 1)}

FileOf(page_bytes, page_size, pages) ==
    [page_bytes |-> page_bytes, header |-> ValidHeader(page_size), pages |-> pages]

TreeFiles == {FileOf(PageBytes, PageBytes, pages) : pages \in TablePagesFrom(1)}

\* a page that is its own child, a child pointer of 0, a child pointer past the end
\* of the file, page 1 as a child, a child whose type byte is no page type, a child
\* that is an index page, and a tree in a file of 65536-byte pages, whose header
\* stores the page size as 1
OddFiles ==
    {FileOf(PageBytes, PageBytes,
            <<LeafTablePage(1, 1), InteriorTablePage(<<3, 2>>), LeafTablePage(3, 2)>>),
     FileOf(PageBytes, PageBytes,
            <<InteriorTablePage(<<2, 0>>), LeafTablePage(2, 1)>>),
     FileOf(PageBytes, PageBytes,
            <<InteriorTablePage(<<0, 2>>), LeafTablePage(2, 1)>>),
     FileOf(PageBytes, PageBytes,
            <<InteriorTablePage(<<2, 3>>), LeafTablePage(2, 1)>>),
     FileOf(PageBytes, PageBytes,
            <<LeafTablePage(1, 1), InteriorTablePage(<<3, 1>>), LeafTablePage(3, 1)>>),
     FileOf(PageBytes, PageBytes,
            <<InteriorTablePage(<<2, 3>>), LeafTablePage(2, 1), EmptyPage("none")>>),
     FileOf(PageBytes, PageBytes,
            <<InteriorTablePage(<<2, 3>>), LeafTablePage(2, 1), EmptyPage("LeafIndex")>>),
     FileOf(65536, 1,
            <<InteriorTablePage(<<2, 3>>), LeafTablePage(2, 1), LeafTablePage(3, 2)>>)}

(***************************************************************************)
(* The files of the index probe: page 1 is the schema leaf, page 2 the     *)
(* root of the index. The entries of an index are (key, rowid) records in  *)
(* key order, the rowid of an entry its place in that order; a root of k   *)
(* cells has k + 1 leaves, the entries dealt to leaf, cell, leaf, ..       *)
(***************************************************************************)
IndexKeys == {<<65>>, <<66>>, <<67>>}

\* a key above every key of the files
ABSENT_KEY == <<68>>

IndexRecord(key, rowid) == [column_contents |-> <<ColumnString(key), ColumnInt(rowid)>>]

RECURSIVE SortedKeySeqs(_)
\* the sequences of n keys in non-decreasing order
SortedKeySeqs(n) ==
    IF n = 0 THEN {<<>>}
    ELSE UNION {{Append(q, k) : k \in {x \in IndexKeys :
                                        q = <<>> \/ ~TextLess(x, q[Len(q)])}}
                : q \in SortedKeySeqs(n - 1)}

EntriesOf(keys) == [i \in 1 .. Len(keys) |-> IndexRecord(keys[i], i)]

LeafIndexPage(entries) ==
    [page_type |-> "LeafIndex",
     cells |-> [i \in 1 .. Len(entries) |-> [record |-> entries[i]]],
     right_most_pointer |-> 0]

\* the last pointer is the right-most pointer of the page header
InteriorIndexPage(pointers, entries) ==
    [page_type |-> "InteriorIndex",
     cells |-> [i \in 1 .. Len(entries) |->
                    [left_child_pointer |-> pointers[i], record |-> entries[i]]],
     right_most_pointer |-> pointers[Len(pointers)]]

\* where the entries before leaf j start, the leaves of sizes `sizes`
LeafStart(sizes, j) == SumOver(1 .. (j - 1), [m \in 1 .. (j - 1) |-> sizes[m] + 1])

\* leaf j of a root of k cells is page k + 4 - j: the leaves lie in the file in
\* the reverse of their key order
LeafPageOf(k, j) == k + 4 - j

TwoLevelIndexPages(k, sizes, entries) ==
    LET leaf(j) == LeafIndexPage(SubSeq(entries, LeafStart(sizes, j) + 1,
                                        LeafStart(sizes, j) + sizes[j]))
        root == InteriorIndexPage(
                    [j \in 1 .. (k + 1) |-> LeafPageOf(k, j)],
                    [j \in 1 .. k |-> entries[LeafStart(sizes, j) + sizes[j] + 1]])
    IN  <<LeafTablePage(1, 0), root>> \o [n \in 1 .. (k + 1) |-> leaf(k + 2 - n)]

TwoLevelIndexFiles ==
    UNION {UNION {{FileOf(PageBytes, PageBytes,
                          TwoLevelIndexPages(k, sizes, EntriesOf(keys))) :
                      keys \in SortedKeySeqs(k + SumOver(1 .. (k + 1), sizes))}
                  : sizes \in [1 .. (k + 1) -> 0 .. MaxCells]}
           : k \in 1 .. MaxCells}

LeafRootIndexFiles ==
    {FileOf(PageBytes, PageBytes, <<LeafTablePage(1, 0), LeafIndexPage(EntriesOf(keys))>>) :
        keys \in UNION {SortedKeySeqs(n) : n \in 0 .. (MaxCells + 1)}}

\* an interior page without a cell, a root whose left child is an interior page,
\* a child pointer of 0, an interior cell whose record has no column, and a table
\* page as the root
OddIndexFiles ==
    {FileOf(PageBytes, PageBytes,
            <<LeafTablePage(1, 0), InteriorIndexPage(<<3>>, <<>>),
              LeafIndexPage(<<IndexRecord(<<65>>, 1)>>)>>),
     FileOf(PageBytes, PageBytes,
            <<LeafTablePage(1, 0),
              InteriorIndexPage(<<3, 6>>, <<IndexRecord(<<66>>, 4)>>),
              InteriorIndexPage(<<4, 5>>, <<IndexRecord(<<65>>, 2)>>),
              LeafIndexPage(<<IndexRecord(<<65>>, 1)>>),
              LeafIndexPage(<<IndexRecord(<<66>>, 3)>>),
              LeafIndexPage(<<IndexRecord(<<66>>, 5), IndexRecord(<<67>>, 6)>>)>>),
     FileOf(PageBytes, PageBytes,
            <<LeafTablePage(1, 0),
              InteriorIndexPage(<<0, 3>>, <<IndexRecord(<<66>>, 1)>>),
              LeafIndexPage(<<IndexRecord(<<67>>, 2)>>)>>),
     FileOf(PageBytes, PageBytes,
            <<LeafTablePage(1, 0),
              InteriorIndexPage(<<3, 3>>, <<[column_contents |-> <<>>]>>),
              LeafIndexPage(<<IndexRecord(<<67>>, 2)>>)>>),
     FileOf(PageBytes, PageBytes, <<LeafTablePage(1, 0), LeafTablePage(2, 1)>>)}

(***************************************************************************)
(* The records SchemaTable::try_from is given: at most MaxRecords records, *)
(* each a row of the schema table or a row that departs from it in its     *)
(* number of columns or in the type of one column.                         *)
(***************************************************************************)
MaxRecords == 3

\* "apples"
TEXT_APPLES == <<97, 112, 112, 108, 101, 115>>

\* "CREATE TABLE apples (id integer primary key, name text, color text)"
SQL_CREATE_APPLES ==
    <<67, 82, 69, 65, 84, 69, 32, 84, 65, 66, 76, 69, 32, 97, 112, 112, 108, 101, 115,
    32, 40, 105, 100, 32, 105, 110, 116, 101, 103, 101, 114, 32, 112, 114, 105, 109, 97,
    114, 121, 32, 107, 101, 121, 44, 32, 110, 97, 109, 101, 32, 116, 101, 120, 116, 44,
    32, 99, 111, 108, 111, 114, 32, 116, 101, 120, 116, 41>>

SchemaRow(rootpage) ==
    <<ColumnString(TEXT_TABLE), ColumnString(TEXT_APPLES), ColumnString(TEXT_APPLES),
      ColumnInt(rootpage), ColumnString(SQL_CREATE_APPLES)>>

\* a value of each ColumnContent variant the decoder yields, floats apart
OtherContents == {ColumnNull, ColumnInt(7), ColumnBlob(<<1, 2>>), ColumnString(TEXT_TABLE)}

SchemaRecordChoices ==
    {[column_contents |-> SchemaRow(rootpage)] : rootpage \in {2, 3}}
    \cup {[column_contents |-> [SchemaRow(2) EXCEPT ![i] = c]] :
            i \in 1 .. 5, c \in OtherContents}
    \cup {[column_contents |-> SubSeq(SchemaRow(2), 1, n)] : n \in {0, 4}}
    \cup {[column_contents |-> Append(SchemaRow(2), ColumnNull)]}

(***************************************************************************)
(* The runs of main: a database, written as the tables and the indexes its *)
(* schema table lists and the pages that follow page 1, under a header     *)
(* that is valid or departs from a valid one in one field; and a command   *)
(* line, the SQL command written as the query it states.                   *)
(***************************************************************************)
\* "id"
TEXT_ID == <<105, 100>>

\* "name"
TEXT_NAME == <<110, 97, 109, 101>>

\* "color"
TEXT_COLOR == <<99, 111, 108, 111, 114>>

\* "country"
TEXT_COUNTRY == <<99, 111, 117, 110, 116, 114, 121>>

\* "taste"
TEXT_TASTE == <<116, 97, 115, 116, 101>>

\* "pears"
TEXT_PEARS == <<112, 101, 97, 114, 115>>

\* "APPLES"
TEXT_APPLES_UPPER == <<65, 80, 80, 76, 69, 83>>

\* "companies"
TEXT_COMPANIES == <<99, 111, 109, 112, 97, 110, 105, 101, 115>>

\* "sqlite_sequence"
TEXT_SQLITE_SEQUENCE ==
    <<115, 113, 108, 105, 116, 101, 95, 115, 101, 113, 117, 101, 110, 99, 101>>

\* "oranges"
TEXT_ORANGES == <<111, 114, 97, 110, 103, 101, 115>>

\* "seq"
TEXT_SEQ == <<115, 101, 113>>

\* "idx_companies_country"
TEXT_IDX_COUNTRY ==
    <<105, 100, 120, 95, 99, 111, 109, 112, 97, 110, 105, 101, 115, 95, 99, 111, 117,
    110, 116, 114, 121>>

\* "COUNT(*)"
TEXT_COUNT_STAR == <<67, 79, 85, 78, 84, 40, 42, 41>>

\* "integer primary key"
TEXT_INTEGER_PRIMARY_KEY ==
    <<105, 110, 116, 101, 103, 101, 114, 32, 112, 114, 105, 109, 97, 114, 121, 32, 107,
    101, 121>>

\* "text"
TEXT_TEXT == <<116, 101, 120, 116>>

\* "Honeycrisp"
TEXT_HONEYCRISP == <<72, 111, 110, 101, 121, 99, 114, 105, 115, 112>>

\* "Granny"
TEXT_GRANNY == <<71, 114, 97, 110, 110, 121>>

\* "Gala"
TEXT_GALA == <<71, 97, 108, 97>>

\* "Red"
TEXT_RED == <<82, 101, 100>>

\* "Green"
TEXT_GREEN == <<71, 114, 101, 101, 110>>

\* "Acme"
TEXT_ACME == <<65, 99, 109, 101>>

\* "Bolt"
TEXT_BOLT == <<66, 111, 108, 116>>

\* "Cie"
TEXT_CIE == <<67, 105, 101>>

\* "FR"
TEXT_FR == <<70, 82>>

\* "DE"
TEXT_DE == <<68, 69>>

\* "2"
TEXT_TWO == <<50>>

\* "SELECT "
SELECT_PREFIX == <<83, 69, 76, 69, 67, 84, 32>>

\* " FROM "
FROM_INFIX == <<32, 70, 82, 79, 77, 32>>

\* " WHERE "
WHERE_INFIX == <<32, 87, 72, 69, 82, 69, 32>>

\* " = '"
EQ_QUOTE_INFIX == <<32, 61, 32, 39>>

\* "CREATE TABLE "
CREATE_TABLE_PREFIX == <<67, 82, 69, 65, 84, 69, 32, 84, 65, 66, 76, 69, 32>>

\* "CREATE INDEX "
CREATE_INDEX_PREFIX == <<67, 82, 69, 65, 84, 69, 32, 73, 78, 68, 69, 88, 32>>

\* " on "
ON_INFIX == <<32, 111, 110, 32>>

\* ", "
TEXT_COMMA_SPACE == <<44, 32>>

\* "SELEC name FROM apples"
SQL_MISSPELT ==
    <<83, 69, 76, 69, 67, 32, 110, 97, 109, 101, 32, 70, 82, 79, 77, 32, 97, 112, 112,
    108, 101, 115>>

\* "SELECT name FROM"
SQL_NO_TABLE == <<83, 69, 76, 69, 67, 84, 32, 110, 97, 109, 101, 32, 70, 82, 79, 77>>

\* " WHERE color = Red": the value is no single-quoted string
WHERE_UNQUOTED ==
    WHERE_INFIX \o TEXT_COLOR \o <<32, 61, 32>> \o TEXT_RED

\* " WHERE color 'Red'": no '='
WHERE_NO_EQUALS == WHERE_INFIX \o TEXT_COLOR \o <<32, 39>> \o TEXT_RED \o <<39>>

Column(name, type) == [name |-> name, type |-> type]

\* "CREATE TABLE t (c1 type1, c2 type2)"
CreateTableText(table) ==
    CREATE_TABLE_PREFIX \o table.name \o <<32, 40>>
    \o join([i \in 1 .. Len(table.columns) |->
                table.columns[i].name \o <<32>> \o table.columns[i].type],
            TEXT_COMMA_SPACE)
    \o <<41>>

\* "CREATE INDEX i on t (c)"
CreateIndexText(index) ==
    CREATE_INDEX_PREFIX \o index.name \o ON_INFIX \o index.table \o <<32, 40>>
    \o index.column \o <<41>>

\* page 1: a leaf of the schema table, the tables first
SchemaPage(database) ==
    LET nt == Len(database.tables)
        row(i) ==
            IF i <= nt
            THEN <<ColumnString(TEXT_TABLE), ColumnString(database.tables[i].name),
                   ColumnString(database.tables[i].name),
                   ColumnInt(database.tables[i].rootpage),
                   ColumnString(CreateTableText(database.tables[i]))>>
            ELSE <<ColumnString(TEXT_INDEX), ColumnString(database.indexes[i - nt].name),
                   ColumnString(database.indexes[i - nt].table),
                   ColumnInt(database.indexes[i - nt].rootpage),
                   ColumnString(CreateIndexText(database.indexes[i - nt]))>>
    IN  [page_type |-> "LeafTable",
         cells |-> [i \in 1 .. (nt + Len(database.indexes)) |->
                        [integer_key |-> i, record |-> [column_contents |-> row(i)]]],
         right_most_pointer |-> 0]

\* a leaf of a table whose first column is the INTEGER PRIMARY KEY, stored as
\* NULL: a row is <<rowid, second column, third column>>
RowsPage(rows) ==
    [page_type |-> "LeafTable",
     cells |-> [i \in 1 .. Len(rows) |->
                    [integer_key |-> rows[i][1],
                     record |-> [column_contents |->
                                    <<ColumnNull, ColumnString(rows[i][2]),
                                      ColumnString(rows[i][3])>>]]],
     right_most_pointer |-> 0]

ApplesTable ==
    [name |-> TEXT_APPLES,
     columns |-> <<Column(TEXT_ID, TEXT_INTEGER_PRIMARY_KEY), Column(TEXT_NAME, TEXT_TEXT),
                   Column(TEXT_COLOR, TEXT_TEXT)>>,
     rootpage |-> 2]

\* apples in one leaf
ApplesDb ==
    [tables |-> <<ApplesTable>>,
     indexes |-> <<>>,
     pages |-> <<RowsPage(<<<<1, TEXT_HONEYCRISP, TEXT_RED>>, <<2, TEXT_GRANNY, TEXT_GREEN>>,
                            <<3, TEXT_GALA, TEXT_RED>>>>)>>]

\* apples under an interior root: page 4 the left child, page 3 the right-most
ApplesTreeDb ==
    [tables |-> <<ApplesTable>>,
     indexes |-> <<>>,
     pages |-> <<[page_type |-> "InteriorTable",
                  cells |-> <<[left_child_pointer |-> 4, integer_key |-> 2]>>,
                  right_most_pointer |-> 3],
                 RowsPage(<<<<3, TEXT_GALA, TEXT_RED>>>>),
                 RowsPage(<<<<1, TEXT_HONEYCRISP, TEXT_RED>>,
                            <<2, TEXT_GRANNY, TEXT_GREEN>>>>)>>]

\* companies with an index on country, each in one leaf
CompaniesDb ==
    [tables |-> <<[name |-> TEXT_COMPANIES,
                   columns |-> <<Column(TEXT_ID, TEXT_INTEGER_PRIMARY_KEY),
                                 Column(TEXT_NAME, TEXT_TEXT),
                                 Column(TEXT_COUNTRY, TEXT_TEXT)>>,
                   rootpage |-> 2]>>,
     indexes |-> <<[name |-> TEXT_IDX_COUNTRY, table |-> TEXT_COMPANIES,
                    column |-> TEXT_COUNTRY, rootpage |-> 3]>>,
     pages |-> <<RowsPage(<<<<42, TEXT_ACME, TEXT_FR>>, <<50, TEXT_BOLT, TEXT_DE>>,
                            <<101, TEXT_CIE, TEXT_FR>>>>),
                 LeafIndexPage(<<IndexRecord(TEXT_DE, 50), IndexRecord(TEXT_FR, 42),
                                 IndexRecord(TEXT_FR, 101)>>)>>]

\* the internal table sqlite_sequence, then apples and oranges, and an index on
\* the colour of the oranges
OrchardDb ==
    [tables |-> <<[name |-> TEXT_SQLITE_SEQUENCE,
                   columns |-> <<Column(TEXT_NAME, TEXT_TEXT), Column(TEXT_SEQ, TEXT_TEXT)>>,
                   rootpage |-> 3],
                  ApplesTable,
                  [name |-> TEXT_ORANGES,
                   columns |-> <<Column(TEXT_ID, TEXT_INTEGER_PRIMARY_KEY),
                                 Column(TEXT_NAME, TEXT_TEXT),
                                 Column(TEXT_COLOR, TEXT_TEXT)>>,
                   rootpage |-> 4]>>,
     indexes |-> <<[name |-> TEXT_IDX_COUNTRY, table |-> TEXT_ORANGES,
                    column |-> TEXT_COLOR, rootpage |-> 5]>>,
     pages |-> <<RowsPage(<<<<1, TEXT_HONEYCRISP, TEXT_RED>>, <<2, TEXT_GRANNY, TEXT_GREEN>>>>),
                 EmptyPage("LeafTable"),
                 RowsPage(<<<<1, TEXT_GALA, TEXT_RED>>>>),
                 LeafIndexPage(<<IndexRecord(TEXT_RED, 1)>>)>>]

Databases == {ApplesDb, ApplesTreeDb, CompaniesDb, OrchardDb}

PagesOf(database) == <<SchemaPage(database)>> \o database.pages

\* a valid header of each end of the schema format range, and the headers that
\* break one assertion: a magic string of zeros, one with a wrong last byte, one
\* with a byte that is no UTF-8, each fraction off by one, a schema format number
\* on either side of 1..4, and a nonzero first or last reserved byte
HeaderChoices ==
    LET valid == ValidHeader(PageBytes)
    IN  {valid,
         [valid EXCEPT !.schema_format_number = 1],
         [valid EXCEPT !.magic_string = [i \in 1 .. 16 |-> 0]],
         [valid EXCEPT !.magic_string[16] = 1],
         [valid EXCEPT !.magic_string[1] = 255],
         [valid EXCEPT !.max_embedded_payload_fraction = 65],
         [valid EXCEPT !.min_embedded_payload_fraction = 31],
         [valid EXCEPT !.leaf_payload_fraction = 33],
         [valid EXCEPT !.schema_format_number = 0],
         [valid EXCEPT !.schema_format_number = 5],
         [valid EXCEPT !.reserved[1] = 1],
         [valid EXCEPT !.reserved[RESERVED_BYTES] = 255]}

MainFiles ==
    {[page_bytes |-> PageBytes, header |-> header, pages |-> PagesOf(database)] :
        header \in HeaderChoices, database \in Databases}

\* under a valid header: a page 1 that is no table page, a table whose sql column
\* is a blob, a table whose CREATE TABLE statement names another table, and an
\* index whose root page is a table page or page 0
OddMainFiles ==
    {FileOf(PageBytes, PageBytes, pages) :
        pages \in
            {<<EmptyPage("LeafIndex")>>,
             [PagesOf(ApplesDb) EXCEPT
                ![1].cells[1].record.column_contents[5] = ColumnBlob(<<1, 2>>)],
             [PagesOf(ApplesDb) EXCEPT
                ![1].cells[1].record.column_contents[5] =
                    ColumnString(CreateTableText([ApplesTable EXCEPT !.name = TEXT_PEARS]))],
             [PagesOf(CompaniesDb) EXCEPT
                ![1].cells[2].record.column_contents[4] = ColumnInt(2)],
             [PagesOf(CompaniesDb) EXCEPT
                ![1].cells[2].record.column_contents[4] = ColumnInt(0)]}}

Select(columns, tablename, where_clause) ==
    [columns |-> columns, tablename |-> tablename, where_clause |-> where_clause]

\* the queries of the SQL commands
Queries ==
    {Select(<<TEXT_NAME>>, TEXT_APPLES, Some(<<TEXT_COLOR, TEXT_RED>>)),
     Select(<<TEXT_ID, TEXT_NAME>>, TEXT_APPLES, Some(<<TEXT_ID, TEXT_TWO>>)),
     Select(<<TEXT_COLOR, TEXT_NAME>>, TEXT_APPLES, None),
     Select(<<TEXT_ID, TEXT_NAME>>, TEXT_APPLES, None),
     Select(<<TEXT_COUNT_STAR>>, TEXT_APPLES, None),
     Select(<<TEXT_COUNT_STAR>>, TEXT_APPLES, Some(<<TEXT_COLOR, TEXT_RED>>)),
     Select(<<TEXT_NAME>>, TEXT_APPLES_UPPER, None),
     Select(<<TEXT_NAME>>, TEXT_PEARS, None),
     Select(<<TEXT_TASTE>>, TEXT_APPLES, None),
     Select(<<TEXT_NAME>>, TEXT_APPLES, Some(<<TEXT_TASTE, TEXT_RED>>)),
     Select(<<TEXT_ID>>, TEXT_COMPANIES, Some(<<TEXT_COUNTRY, TEXT_FR>>)),
     Select(<<TEXT_NAME>>, TEXT_COMPANIES, Some(<<TEXT_NAME, TEXT_ACME>>))}

\* "SELECT c1, c2 FROM t" or "SELECT c1, c2 FROM t WHERE c = 'v'"
SelectText(query) ==
    SELECT_PREFIX \o join(query.columns, TEXT_COMMA_SPACE) \o FROM_INFIX \o query.tablename
    \o (IF query.where_clause = None THEN <<>>
        ELSE WHERE_INFIX \o query.where_clause[1][1] \o EQ_QUOTE_INFIX
             \o query.where_clause[1][2] \o <<39>>)

\* "SELECT name FROM apples" followed by a WHERE clause that is malformed
MalformedWhereTexts ==
    {SelectText(Select(<<TEXT_NAME>>, TEXT_APPLES, None)) \o clause :
        clause \in {WHERE_UNQUOTED, WHERE_NO_EQUALS}}

\* the command lines: a SQL command that states a query, is no SELECT or has a
\* malformed WHERE clause, a dot command, or neither
Clis ==
    {[sql_command |-> Some(SelectText(query)), command |-> None] : query \in Queries}
    \cup {[sql_command |-> Some(text), command |-> None] :
            text \in {SQL_MISSPELT, SQL_NO_TABLE} \cup MalformedWhereTexts}
    \cup {[sql_command |-> None, command |-> Some(command)] :
            command \in {"DbInfo", "Tables"}}
    \cup {[sql_command |-> None, command |-> None]}

(***************************************************************************)
(* The cells SpecRecord reads. Every varint of a cell is one byte: the     *)
(* payload length P, the rowid, the header length H and each serial type.  *)
(***************************************************************************)
CellBytes(payload_length, rowid, header_length, serial_types, body) ==
    <<payload_length, rowid, header_length>> \o serial_types \o body

\* the cell the file format gives a record of these serial types and body
WellFormedCell(serial_types, body) ==
    CellBytes(1 + Len(serial_types) + Len(body), 1, 1 + Len(serial_types), serial_types,
              body)

INT_SERIAL_TYPES == 1 .. 6

\* the body bytes of the serial types 1..6
INT_BYTES == <<1, 2, 3, 4, 6, 8>>

FirstBytes == {0, 1, 127, 128, 255}

MiddleBytes == {0, 1, 255}

\* the bodies of n bytes: a first byte, the middle bytes all alike, a last byte
IntBodies(n) ==
    IF n = 1 THEN {<<b>> : b \in FirstBytes}
    ELSE {<<b>> \o [i \in 1 .. (n - 2) |-> m] \o <<c>> :
            b \in FirstBytes, m \in MiddleBytes, c \in MiddleBytes}

IntCells ==
    UNION {{WellFormedCell(<<t>>, body) : body \in IntBodies(INT_BYTES[t])} :
            t \in INT_SERIAL_TYPES}

\* serial types 10 and 11, alone, after and before an Int8 column, the body
\* whole or cut short by a byte
ReservedCells ==
    UNION {{WellFormedCell(<<t>>, <<>>), WellFormedCell(<<1, t>>, <<7>>),
            WellFormedCell(<<t, 1>>, <<7>>),
            CellBytes(4, 1, 3, <<1, t>>, <<>>)} : t \in {10, 11}}

\* records of several columns: (Int8), (text of 2 bytes, Int8), (NULL, 0, 1),
\* (blob of 1 byte, Int16)
RecordShapes ==
    {[serial_types |-> <<1>>, body |-> <<5>>],
     [serial_types |-> <<17, 1>>, body |-> <<104, 105, 5>>],
     [serial_types |-> <<0, 8, 9>>, body |-> <<>>],
     [serial_types |-> <<14, 2>>, body |-> <<200, 1, 2>>]}

\* a record shape under a payload length and a header length that are right or
\* off by one, its body whole, cut short by a byte or followed by one
ShapedCells ==
    UNION {{CellBytes(1 + Len(s.serial_types) + Len(s.body) + dp, 1,
                      1 + Len(s.serial_types) + dh, s.serial_types,
                      IF db = 1 THEN Append(s.body, 9)
                      ELSE SubSeq(s.body, 1, Len(s.body) + db)) :
                dp \in {-1, 0, 1}, dh \in {-1, 0, 1},
                db \in {d \in {-1, 0, 1} : Len(s.body) + d >= 0}} :
            s \in RecordShapes}

RecordCells == IntCells \cup ReservedCells \cup ShapedCells

(***************************************************************************)
(* What the file format says of a table B-tree, by page number.            *)
(***************************************************************************)
IsInterior(page) == page.page_type \in {"InteriorTable", "InteriorIndex"}

\* the children of a page: the left child of each cell, then the right-most child
Children(f, n) ==
    IF IsInterior(f.pages[n])
    THEN [i \in 1 .. Len(f.pages[n].cells) |-> f.pages[n].cells[i].left_child_pointer]
         \o <<f.pages[n].right_most_pointer>>
    ELSE <<>>

PageNumbers(f) == 1 .. Len(f.pages)

ChildSet(f, n) == {Children(f, n)[i] : i \in DOMAIN Children(f, n)} \cap PageNumbers(f)

RECURSIVE ReachableFrom(_, _)
\* the pages reachable from the pages of S by child pointers
ReachableFrom(f, S) ==
    LET more == S \cup UNION {ChildSet(f, n) : n \in S}
    IN  IF more = S THEN S ELSE ReachableFrom(f, more)

\* the references to page n from the pages of R
References(f, R, n) ==
    {<<m, i>> \in R \X (1 .. (MaxCells + 2)) :
        i \in DOMAIN Children(f, m) /\ Children(f, m)[i] = n}

\* the pages reachable from root form a tree of pages of the types given: every
\* child pointer names a page of the file other than page 1 (the root of the
\* schema table, whose page header follows the file header), the root is no
\* page's child and every other page is the child of exactly one cell or
\* right-most pointer
IsTree(f, root, types) ==
    /\ root \in PageNumbers(f)
    /\ LET R == ReachableFrom(f, {root})
       IN  /\ \A n \in R : f.pages[n].page_type \in types
           /\ \A n \in R : Len(f.pages[n].cells) <= MaxCells + 1
           /\ \A n \in R : \A i \in DOMAIN Children(f, n) :
                 Children(f, n)[i] \in PageNumbers(f) \ {1}
           /\ \A n \in R :
                 Cardinality(References(f, R, n)) = (IF n = root THEN 0 ELSE 1)

IsTableTree(f, root) == IsTree(f, root, {"InteriorTable", "LeafTable"})

RECURSIVE InOrder(_, _)
\* on a leaf, one record per cell in cell-pointer order; on an interior page, the
\* records of each cell's left child in cell-pointer order, then those of the
\* right-most child
InOrder(f, n) ==
    IF f.pages[n].page_type = "LeafTable"
    THEN [i \in 1 .. Len(f.pages[n].cells) |-> f.pages[n].cells[i].record]
    ELSE Flatten([i \in DOMAIN Children(f, n) |-> InOrder(f, Children(f, n)[i])])

\* the sum of the cell counts of the leaves reachable from root
LeafCellTotal(f, root) ==
    LET leaves == {n \in ReachableFrom(f, {root}) : f.pages[n].page_type = "LeafTable"}
    IN  SumOver(leaves, [n \in leaves |-> Len(f.pages[n].cells)])

(***************************************************************************)
(* The varints the reader is given: up to eight bytes with the high bit    *)
(* set, then a last byte; the ninth byte may be any byte.                  *)
(***************************************************************************)
ContinuationBytes == {128, 129, 255}

LastBytes == {0, 1, 127}

NinthBytes == {0, 1, 128, 255}

VarintEncodings ==
    UNION {{Append(p, b) : p \in SeqsOfLen(ContinuationBytes, k), b \in LastBytes}
           : k \in 0 .. (MAX_VARINT_BYTES - 2)}
    \cup {Append(p, b) : p \in SeqsOfLen(ContinuationBytes, MAX_VARINT_BYTES - 1),
                         b \in NinthBytes}

\* the value the file format gives an encoding: 7-bit groups, the first byte the
\* most significant, and all 8 bits of a ninth byte in the lowest position
VarintValue(bytes) ==
    LET n == Len(bytes)
    IN  IF n < MAX_VARINT_BYTES
        THEN [i \in BitIdx |->
                IF i < 7 * n THEN BitOf(bytes[n - (i \div 7)] % 128, i % 7) ELSE 0]
        ELSE [i \in BitIdx |->
                IF i < 8 THEN BitOf(bytes[n], i)
                ELSE BitOf(bytes[(n - 1) - ((i - 8) \div 7)] % 128, (i - 8) % 7)]

(***************************************************************************)
(* What the file format says of an index B-tree, by page number.           *)
(***************************************************************************)
RECURSIVE IndexInOrder(_, _)
\* the entries of the index in key order: on an interior page, the entries of a
\* cell's left child come before the cell's own entry, and those of the
\* right-most child last
IndexInOrder(f, n) ==
    IF f.pages[n].page_type = "LeafIndex"
    THEN [i \in 1 .. Len(f.pages[n].cells) |-> f.pages[n].cells[i].record]
    ELSE Flatten([i \in 1 .. Len(f.pages[n].cells) |->
                    Append(IndexInOrder(f, f.pages[n].cells[i].left_child_pointer),
                           f.pages[n].cells[i].record)])
         \o IndexInOrder(f, f.pages[n].right_most_pointer)

Leading(entry) == entry.column_contents[1]

\* a tree of index pages whose entries have a text key and are in key order
IsIndexTree(f, root) ==
    /\ IsTree(f, root, {"InteriorIndex", "LeafIndex"})
    /\ LET entries == IndexInOrder(f, root)
       IN  /\ \A i \in 1 .. Len(entries) :
                 /\ Len(entries[i].column_contents) = 2
                 /\ Leading(entries[i]).tag = "String"
           /\ \A i \in 1 .. (Len(entries) - 1) :
                 ~TextLess(Leading(entries[i + 1]).val, Leading(entries[i]).val)

\* the entries of the index whose leading column is the text key
EntriesWithKey(f, root, key) ==
    {e \in Range(IndexInOrder(f, root)) : Leading(e) = ColumnString(key)}

EnvIdle ==
    /\ file = FileOf(PageBytes, PageBytes, <<LeafTablePage(1, 0)>>)
    /\ overflow_checks = TRUE

TableIdle ==
    /\ troot = 0
    /\ tpc = "idle"
    /\ tout = Fail("none")

IndexIdle ==
    /\ iroot = 0
    /\ ival = <<>>
    /\ ipc = "idle"
    /\ iout = Fail("none")

SchemaIdle ==
    /\ srecords = <<>>
    /\ spc = "idle"
    /\ sout = [ok |-> FALSE]

VarintIdle ==
    /\ vin = <<>>
    /\ vpc = "idle"
    /\ vout = [ok |-> FALSE, value |-> Zero64, bytes_read |-> 0]

RecordIdle ==
    /\ rcell = <<>>
    /\ rpc = "idle"
    /\ rout = [kind |-> "none"]

MainIdle ==
    /\ cli = [sql_command |-> None, command |-> None]
    /\ mpc = "idle"
    /\ stdout = <<>>
    /\ outcome = [kind |-> "none", at |-> "none"]
    /\ catalog = None

VarintInit ==
    /\ vin \in VarintEncodings
    /\ vpc = "start"
    /\ vout = [ok |-> FALSE, value |-> Zero64, bytes_read |-> 0]
    /\ EnvIdle
    /\ TableIdle
    /\ IndexIdle
    /\ SchemaIdle
    /\ MainIdle
    /\ RecordIdle

ParseVarint ==
    /\ vpc = "start"
    /\ vout' = parse_varint_with_bytes(vin)
    /\ vpc' = "done"
    /\ UNCHANGED <<vin, envVars, tableVars, indexVars, schemaVars, mainVars, recordVars>>

VarintNext == ParseVarint

SpecVarint == VarintInit /\ [][VarintNext]_vars

(***************************************************************************)
(* SpecTable: get_table_records is called on a root page of a file.        *)
(***************************************************************************)
TableRoots == {1, 2}

TableInit ==
    /\ \/ file \in TreeFiles /\ overflow_checks = TRUE
       \/ file \in OddFiles /\ overflow_checks \in BOOLEAN
    /\ troot \in TableRoots
    /\ tpc = "start"
    /\ tout = Fail("none")
    /\ VarintIdle
    /\ IndexIdle
    /\ SchemaIdle
    /\ MainIdle
    /\ RecordIdle

GetTableRecords ==
    /\ tpc = "start"
    /\ tout' = TableRecordsOfRoot(file, file.header.page_size, troot)
    /\ tpc' = "done"
    /\ UNCHANGED <<troot, envVars, varintVars, indexVars, schemaVars, mainVars, recordVars>>

TableNext == GetTableRecords

SpecTable == TableInit /\ [][TableNext]_vars

(***************************************************************************)
(* SpecIndex: the index rooted at page 2 is probed for a key, as main      *)
(* probes the index of a WHERE column.                                     *)
(***************************************************************************)
IndexInit ==
    /\ \/ file \in TwoLevelIndexFiles \cup LeafRootIndexFiles /\ overflow_checks = TRUE
       \/ file \in OddIndexFiles /\ overflow_checks \in BOOLEAN
    /\ iroot = 2
    /\ ival \in IndexKeys \cup {ABSENT_KEY}
    /\ ipc = "start"
    /\ iout = Fail("none")
    /\ VarintIdle
    /\ TableIdle
    /\ SchemaIdle
    /\ MainIdle
    /\ RecordIdle

GetIndexRecords ==
    /\ ipc = "start"
    /\ iout' = IndexRecordsOfRoot(file, file.header.page_size, iroot, ival)
    /\ ipc' = "done"
    /\ UNCHANGED <<iroot, ival, envVars, varintVars, tableVars, schemaVars, mainVars,
                   recordVars>>

IndexNext == GetIndexRecords

SpecIndex == IndexInit /\ [][IndexNext]_vars

(***************************************************************************)
(* SpecSchema: the catalog is built from the records of page 1.            *)
(***************************************************************************)
SchemaInit ==
    /\ \E n \in 0 .. MaxRecords : srecords \in [1 .. n -> SchemaRecordChoices]
    /\ spc = "start"
    /\ sout = [ok |-> FALSE]
    /\ EnvIdle
    /\ VarintIdle
    /\ TableIdle
    /\ IndexIdle
    /\ MainIdle
    /\ RecordIdle

BuildSchemaTable ==
    /\ spc = "start"
    /\ sout' = SchemaTable_try_from(srecords)
    /\ spc' = "done"
    /\ UNCHANGED <<srecords, envVars, varintVars, tableVars, indexVars, mainVars, recordVars>>

SchemaNext == BuildSchemaTable

SpecSchema == SchemaInit /\ [][SchemaNext]_vars

(***************************************************************************)
(* SpecRecord: the cell of a leaf table page is read from its bytes.       *)
(***************************************************************************)
RecordInit ==
    /\ rcell \in RecordCells
    /\ overflow_checks \in BOOLEAN
    /\ file = FileOf(PageBytes, PageBytes, <<LeafTablePage(1, 0)>>)
    /\ rpc = "start"
    /\ rout = [kind |-> "none"]
    /\ VarintIdle
    /\ TableIdle
    /\ IndexIdle
    /\ SchemaIdle
    /\ MainIdle

ReadLeafCell ==
    /\ rpc = "start"
    /\ rout' = BTreeTableLeafCell_read(rcell)
    /\ rpc' = "done"
    /\ UNCHANGED <<rcell, envVars, varintVars, tableVars, indexVars, schemaVars, mainVars>>

RecordNext == ReadLeafCell

SpecRecord == RecordInit /\ [][RecordNext]_vars

(***************************************************************************)
(* Spec: main runs once on a database file and a command line.             *)
(***************************************************************************)
Init ==
    /\ file \in MainFiles \cup OddMainFiles
    /\ overflow_checks \in BOOLEAN
    /\ cli \in Clis
    /\ mpc = "start"
    /\ stdout = <<>>
    /\ outcome = [kind |-> "none", at |-> "none"]
    /\ catalog = None
    /\ VarintIdle
    /\ TableIdle
    /\ IndexIdle
    /\ SchemaIdle
    /\ RecordIdle

\* the run ends as `ended` says
End(ended) ==
    /\ stdout' = ended.stdout
    /\ outcome' = ended.outcome
    /\ catalog' = ended.schema_table
    /\ mpc' = "done"
    /\ UNCHANGED <<cli, envVars, varintVars, tableVars, indexVars, schemaVars, recordVars>>

\* main.rs:223-344
Sql ==
    /\ mpc = "start"
    /\ cli.sql_command # None
    /\ End(main_sql_command(file, cli.sql_command[1]))

\* main.rs:346: neither a SQL command nor a dot command
NoCommand ==
    /\ mpc = "start"
    /\ cli.sql_command = None
    /\ cli.command = None
    /\ End(Ended("Panic", "Should have a command at this point", <<>>, None))

DbInfo ==
    /\ mpc = "start"
    /\ cli.sql_command = None
    /\ cli.command = Some("DbInfo")
    /\ End(main_dbinfo(file))

Tables ==
    /\ mpc = "start"
    /\ cli.sql_command = None
    /\ cli.command = Some("Tables")
    /\ End(main_tables(file))

Next == Sql \/ NoCommand \/ DbInfo \/ Tables

Spec == Init /\ [][Next]_vars

\* C3: decoding a varint of 1 to 9 bytes yields the 7-bit groups of its first
\* up-to-eight bytes, most significant first, with all 8 bits of a ninth byte
\* lowest, and the number of bytes consumed.
C3_VarintDecodes ==
    vpc = "done" =>
        /\ vout.ok
        /\ vout.value = VarintValue(vin)
        /\ vout.bytes_read = Len(vin)

\* the page_size get_table_records is given is the size of the file's pages
PageSizeFits(f) == f.header.page_size = f.page_bytes

C2_IndexFidelity ==
    (/\ ipc = "done"
     /\ PageSizeFits(file)
     /\ IsIndexTree(file, iroot)
     /\ EntriesWithKey(file, iroot, ival) # {}) =>
        /\ iout.kind = "Ok"
        /\ Range(iout.records) = EntriesWithKey(file, iroot, ival)

\* the shape the schema table gives a row: five columns, type, name and tbl_name
\* text, rootpage an integer, sql text
HasSchemaShape(record) ==
    /\ Len(record.column_contents) = 5
    /\ \A i \in {1, 2, 3, 5} : record.column_contents[i].tag = "String"
    /\ record.column_contents[4].tag = "Int"

\* the shape with sql text or a blob
HasSchemaShapeOrBlobSql(record) ==
    /\ Len(record.column_contents) = 5
    /\ \A i \in {1, 2, 3} : record.column_contents[i].tag = "String"
    /\ record.column_contents[4].tag = "Int"
    /\ record.column_contents[5].tag \in {"String", "Blob"}

\* the places, in order, of the elements of q that satisfy Keep
KeptPlaces(q, Keep(_)) ==
    LET S == {i \in DOMAIN q : Keep(q[i])}
    IN  [j \in 1 .. Cardinality(S) |->
            CHOOSE i \in S : Cardinality({k \in S : k < i}) = j - 1]

\* entry is the catalog entry of record
IsEntryOf(entry, record) ==
    /\ entry.coltype = record.column_contents[1].val
    /\ entry.name = record.column_contents[2].val
    /\ entry.tbl_name = record.column_contents[3].val
    /\ entry.rootpage = record.column_contents[4].val
    /\ entry.sql = (IF record.column_contents[5].tag = "Blob" THEN BLOB_TEXT
                    ELSE record.column_contents[5].val)

HeaderValid(h) ==
    /\ h.magic_string = MAGIC
    /\ h.max_embedded_payload_fraction = 64
    /\ h.min_embedded_payload_fraction = 32
    /\ h.leaf_payload_fraction = 32
    /\ h.schema_format_number \in {1, 2, 3, 4}
    /\ \A i \in DOMAIN h.reserved : h.reserved[i] = 0

\* the file holds one of the databases, under a valid header
IsDatabase(f) ==
    /\ HeaderValid(f.header)
    /\ PageSizeFits(f)
    /\ \E d \in Databases : f.pages = PagesOf(d)

Described(f) == CHOOSE d \in Databases : f.pages = PagesOf(d)

\* the command line is a SQL command that states a query
StatesQuery(c) == \E q \in Queries : c.sql_command = Some(SelectText(q))

Asked(c) == CHOOSE q \in Queries : c.sql_command = Some(SelectText(q))

\* the run reads the file: a dot command, or a SQL command that states a query
ReadsFile(c) == StatesQuery(c) \/ (c.sql_command = None /\ c.command # None)

SameName(a, b) == to_lowercase(a) = to_lowercase(b)

\* the tables of the database with the name
TablesNamed(d, name) == {t \in Range(d.tables) : SameName(t.name, name)}

\* the places of the columns of the table with the name
PlacesNamed(t, name) == {i \in DOMAIN t.columns : SameName(t.columns[i].name, name)}

IsCount(q) == q.columns = <<TEXT_COUNT_STAR>>

\* the query names a table of the database and columns of that table
Binds(d, q) ==
    /\ TablesNamed(d, q.tablename) # {}
    /\ \A t \in TablesNamed(d, q.tablename) :
          /\ IsCount(q) \/ \A j \in DOMAIN q.columns : PlacesNamed(t, q.columns[j]) # {}
          /\ q.where_clause = None \/ PlacesNamed(t, q.where_clause[1][1]) # {}

\* the database has an index on the WHERE column of the query
HasIndex(d, q) ==
    /\ q.where_clause # None
    /\ \E x \in Range(d.indexes) :
          SameName(x.table, q.tablename) /\ SameName(x.column, q.where_clause[1][1])

RECURSIVE CellsInOrder(_, _)
\* the leaf cells of the table rooted at page n, in rowid order
CellsInOrder(f, n) ==
    IF f.pages[n].page_type = "LeafTable" THEN f.pages[n].cells
    ELSE Flatten([i \in DOMAIN Children(f, n) |-> CellsInOrder(f, Children(f, n)[i])])

\* the text of column i of a row: the rowid for the INTEGER PRIMARY KEY
Rendered(t, cell, i) ==
    IF t.columns[i].type = TEXT_INTEGER_PRIMARY_KEY THEN Decimal(cell.integer_key)
    ELSE repr(cell.record.column_contents[i])

\* the rows of the table that the WHERE clause keeps, in rowid order
MatchingCells(f, t, q) ==
    LET cells == CellsInOrder(f, t.rootpage)
    IN  IF q.where_clause = None THEN cells
        ELSE Filter(cells,
                    {c \in Range(cells) :
                        \A i \in PlacesNamed(t, q.where_clause[1][1]) :
                            Rendered(t, c, i) = q.where_clause[1][2]})

\* one line per row kept: the projected columns in the order asked, joined by '|'
SelectedLines(f, q) ==
    LET t == CHOOSE t \in TablesNamed(Described(f), q.tablename) : TRUE
        cells == MatchingCells(f, t, q)
    IN  [k \in 1 .. Len(cells) |->
            join([j \in 1 .. Len(q.columns) |->
                    Rendered(t, cells[k], CHOOSE i \in PlacesNamed(t, q.columns[j]) : TRUE)],
                 <<124>>)]

\* the number of rows kept
SelectedCount(f, q) ==
    LET t == CHOOSE t \in TablesNamed(Described(f), q.tablename) : TRUE
    IN  Len(MatchingCells(f, t, q))

\* C4: a run on a file whose header has a wrong magic string, a wrong payload
\* fraction, a schema format number outside 1..4 or a nonzero reserved byte
\* fails, builds no catalog and prints nothing; when the run reads the file, it
\* fails reading the header.
C4_BadHeaderRejected ==
    (mpc = "done" /\ ~HeaderValid(file.header)) =>
        /\ outcome.kind # "Ok"
        /\ catalog = None
        /\ stdout = <<>>
        /\ ReadsFile(cli) => outcome = [kind |-> "Err", at |-> "DatabaseHeader::read"]

\* .dbinfo on a file whose header is valid but for its last reserved byte
C4_Witness ==
    /\ mpc = "done"
    /\ cli.command = Some("DbInfo")
    /\ HeaderValid([file.header EXCEPT !.reserved[RESERVED_BYTES] = 0])
    /\ file.header.reserved[RESERVED_BYTES] # 0
    /\ outcome = [kind |-> "Err", at |-> "DatabaseHeader::read"]
    /\ stdout = <<>>

\* C6: a SELECT of columns with a WHERE clause on a column that no index covers
\* prints, in rowid order, one line per row whose WHERE column reads as the
\* value, the projected columns in the order asked joined by '|', and no other
\* line.
C6_ScanEmitsMatchingRows ==
    (/\ mpc = "done"
     /\ IsDatabase(file)
     /\ StatesQuery(cli)
     /\ Binds(Described(file), Asked(cli))
     /\ Asked(cli).where_clause # None
     /\ ~IsCount(Asked(cli))
     /\ ~HasIndex(Described(file), Asked(cli))) =>
        stdout = SelectedLines(file, Asked(cli))

\* C7: SELECT COUNT(*) prints one line, the number of rows of the table, or with
\* a WHERE clause the number of rows whose WHERE column reads as the value.
C7_CountEmitsCardinality ==
    (/\ mpc = "done"
     /\ IsDatabase(file)
     /\ StatesQuery(cli)
     /\ Binds(Described(file), Asked(cli))
     /\ IsCount(Asked(cli))) =>
        stdout = <<Decimal(SelectedCount(file, Asked(cli)))>>

\* the query projects or filters on the INTEGER PRIMARY KEY column
TouchesPrimaryKey(d, q) ==
    \E t \in TablesNamed(d, q.tablename) :
        \E i \in DOMAIN t.columns :
            /\ t.columns[i].type = TEXT_INTEGER_PRIMARY_KEY
            /\ \/ \E j \in DOMAIN q.columns : SameName(q.columns[j], t.columns[i].name)
               \/ q.where_clause # None /\ SameName(q.where_clause[1][1], t.columns[i].name)

C9_UnknownNamesAreErrors ==
    (/\ mpc = "done"
     /\ IsDatabase(file)
     /\ StatesQuery(cli)
     /\ ~Binds(Described(file), Asked(cli))) =>
        /\ outcome.kind = "Err"
        /\ stdout = <<>>

\* C10: a SELECT with a WHERE clause on a column that an index covers prints the
\* same set of rows as the scan of the table filtered on the clause.
C10_IndexPathIsScan ==
    (/\ mpc = "done"
     /\ IsDatabase(file)
     /\ StatesQuery(cli)
     /\ Binds(Described(file), Asked(cli))
     /\ ~IsCount(Asked(cli))
     /\ HasIndex(Described(file), Asked(cli))) =>
        Range(stdout) = Range(SelectedLines(file, Asked(cli)))

(***************************************************************************)
(* What .tables is to list: the names of the tables the user made, in the  *)
(* order of the catalog.                                                   *)
(***************************************************************************)
\* the places of the catalog that hold a table whose name is not internal
UserTablePlaces(schema_table) ==
    {i \in DOMAIN schema_table.records :
        /\ schema_table.records[i].coltype = TEXT_TABLE
        /\ \/ Len(schema_table.records[i].name) < Len(SQLITE_PREFIX)
           \/ \E j \in DOMAIN SQLITE_PREFIX :
                schema_table.records[i].name[j] # SQLITE_PREFIX[j]}

\* the k-th smallest number of S
NthOf(S, k) == CHOOSE i \in S : Cardinality({j \in S : j < i}) = k - 1

\* names are the names at the user-table places, place by place
ListsUserTables(names, schema_table) ==
    /\ Len(names) = Cardinality(UserTablePlaces(schema_table))
    /\ \A k \in DOMAIN names :
            names[k] = schema_table.records[NthOf(UserTablePlaces(schema_table), k)].name

\* C11: get_table_names returns exactly the names of the catalog entries whose
\* type is "table" and whose name does not start with "sqlite_", in the order of
\* the catalog, and .tables prints them on one line, a space between them.
C11_TablesListsUserTables ==
    (mpc = "done" /\ cli.sql_command = None /\ cli.command = Some("Tables")
     /\ outcome.kind = "Ok") =>
        /\ catalog # None
        /\ ListsUserTables(get_table_names(catalog[1]), catalog[1])
        /\ stdout = <<join(get_table_names(catalog[1]), <<32>>)>>

\* .tables on a catalog that holds sqlite_sequence, two tables of the user and an
\* index: the line printed is "apples oranges"
C11_Witness ==
    /\ mpc = "done"
    /\ cli.command = Some("Tables")
    /\ outcome.kind = "Ok"
    /\ catalog # None
    /\ \E i \in DOMAIN catalog[1].records :
            /\ catalog[1].records[i].coltype = TEXT_TABLE
            /\ catalog[1].records[i].name = TEXT_SQLITE_SEQUENCE
    /\ \E i \in DOMAIN catalog[1].records : catalog[1].records[i].coltype = TEXT_INDEX
    /\ stdout = <<TEXT_APPLES \o <<32>> \o TEXT_ORANGES>>

\* C12: a SQL text that does not match the SELECT grammar, a WHERE clause that
\* is present but malformed included, ends the run with the parse error of
\* parse_select_command: the parser hands the executor no query.
C12_MalformedIsParseError ==
    (mpc = "done" /\ cli.sql_command # None /\ ~StatesQuery(cli)) =>
        /\ ~parse_select_command(cli.sql_command[1]).ok
        /\ outcome = [kind |-> "Err", at |-> "parse_select_command"]

\* the header's 16-bit page size field holds the size of the pages, 65536
\* stored as 1
StoresPageSize(f) ==
    f.header.page_size = (IF f.page_bytes = 65536 THEN 1 ELSE f.page_bytes)

\* C13: every page n the traversal follows is read at offset (n - 1) times the
\* page size the header states, a stored 1 meaning 65536: on a table B-tree of
\* a file whose header stores the size of its pages, the traversal reads the
\* pages of the tree and returns their records in order.
C13_PagesReadAtTheirOffset ==
    (tpc = "done" /\ StoresPageSize(file) /\ IsTableTree(file, troot)) =>
        /\ tout.kind = "Ok"
        /\ tout.records = InOrder(file, troot)

(***************************************************************************)
(* What the file format says of a record. An integer is its sign and the   *)
(* 64 bits of its magnitude.                                               *)
(***************************************************************************)
\* the integer a u64 holds
UnsignedInteger(v) == [negative |-> FALSE, magnitude |-> v]

\* the integer that big-endian bytes denote in two's complement
SignedBigEndian(body) ==
    LET n == Len(body)
        bit(i) == IF i < 8 * n THEN BitOf(body[n - (i \div 8)], i % 8) ELSE 1
        flipped(i) == 1 - bit(i)
    IN  IF body[1] < 128
        THEN [negative |-> FALSE,
              magnitude |-> [i \in BitIdx |-> IF i < 8 * n THEN bit(i) ELSE 0]]
        ELSE [negative |-> TRUE,
              magnitude |-> [i \in BitIdx |->
                                IF \A j \in 0 .. (i - 1) : flipped(j) = 1
                                THEN 1 - flipped(i) ELSE flipped(i)]]

\* a cell whose record is one column of serial type 1..6, its body whole
IsIntCell(cell) ==
    /\ Len(cell) >= 5
    /\ cell[3] = 2
    /\ cell[4] \in INT_SERIAL_TYPES
    /\ Len(cell) = 4 + INT_BYTES[cell[4]]
    /\ cell[1] = 2 + INT_BYTES[cell[4]]
    /\ cell[2] < 128

\* C14: a column of serial type 1..6 takes 1, 2, 3, 4, 6, 8 bytes of the body and
\* is the integer those bytes denote as a signed big-endian number, whatever the
\* bytes.
C14_SignedBigEndianIntegers ==
    (rpc = "done" /\ IsIntCell(rcell)) =>
        /\ rout.kind = "Ok"
        /\ rout.pos = Len(rcell)
        /\ Len(rout.value.record.column_contents) = 1
        /\ rout.value.record.column_contents[1].tag = "Int"
        /\ UnsignedInteger(rout.value.record.column_contents[1].val)
                = SignedBigEndian(Drop(rcell, 4))

\* the serial types the header of the cell's record lists, the header length
\* taken at its word
HeaderSerialTypes(cell) == SubSeq(cell, 4, cell[3] + 2)

\* a cell whose record header is whole and lists serial type 10 or 11
ListsReservedType(cell) ==
    /\ Len(cell) >= 3
    /\ cell[3] + 2 <= Len(cell)
    /\ \E i \in DOMAIN HeaderSerialTypes(cell) : HeaderSerialTypes(cell)[i] \in {10, 11}

\* C15: decoding a record whose header lists serial type 10 or 11 ends in an
\* error, an Err the catalog can drop the row on and a query can abort with.
C15_ReservedTypeIsError ==
    (rpc = "done" /\ ListsReservedType(rcell)) => rout.kind = "Err"

\* the body bytes the file format gives a column of a serial type
FormatBodySize(column_type) ==
    CASE column_type.tag \in {"Null", "Integer0", "Integer1", "Reserved"} -> 0
      [] column_type.tag = "Int8" -> 1
      [] column_type.tag = "Int16" -> 2
      [] column_type.tag = "Int24" -> 3
      [] column_type.tag = "Int32" -> 4
      [] column_type.tag = "Int48" -> 6
      [] column_type.tag \in {"Int64", "Float64"} -> 8
      [] column_type.tag \in {"Blob", "String"} -> column_type.size

BodySizeSum(column_types) ==
    SumOver(DOMAIN column_types,
            [i \in DOMAIN column_types |-> FormatBodySize(column_types[i])])

\* C16: in every leaf table cell the decoder accepts, the header length of the
\* record plus the body sizes of its columns is the payload length the cell
\* declares, and the record has one value per serial type of its header; a cell
\* in which they disagree is not accepted.
C16_RecordHeaderCoherence ==
    (rpc = "done" /\ rout.kind = "Ok") =>
        /\ U64ToNat(rout.value.record.size_header_varint[1])
                + BodySizeSum(rout.value.record.column_types)
            = U64ToNat(rout.value.nb_bytes_key_payload_including_overflow)
        /\ Len(rout.value.record.column_contents) = Len(rout.value.record.column_types)

\* the places of an entry in the key order of the index
PlacesOf(f, root, entry) ==
    {p \in DOMAIN IndexInOrder(f, root) : IndexInOrder(f, root)[p] = entry}

\* C17: the entries a probe returns are in the key order of the index, equal
\* keys in the order of the index: an entry of an interior cell comes after the
\* entries of the cell's left child.
C17_ProbeInIndexOrder ==
    (ipc = "done" /\ PageSizeFits(file) /\ IsIndexTree(file, iroot) /\ iout.kind = "Ok") =>
        \A i, j \in DOMAIN iout.records :
            i < j => \E p \in PlacesOf(file, iroot, iout.records[i]),
                        q \in PlacesOf(file, iroot, iout.records[j]) : p < q

\* C18: the traversal of a table B-tree from any root page ends with a finite
\* sequence of records or with an error, and started again at the same root of
\* the same file it ends the same way.
C18_TraversalEndsAndRestarts ==
    tpc = "done" =>
        /\ tout.kind \in {"Ok", "Err"}
        /\ TableRecordsOfRoot(file, file.header.page_size, troot) = tout

\* C19: in the binary search of an interior index page of any number of cells,
\* for any key, l and r do not go below 0 and every cell index used is one of
\* the page: the probe of a well-formed index does not panic on an index that is
\* out of range or on a subtraction that underflows.
C19_SearchStaysInRange ==
    (/\ ipc = "done"
     /\ PageSizeFits(file)
     /\ IsIndexTree(file, iroot)
     /\ file.pages[iroot].page_type = "InteriorIndex") =>
        iout.kind # "Panic"

====
